---- MODULE Spec2Model ----
(***************************************************************************)
(* Presence tracking, connection registry and conversation registry of     *)
(* the chat back end (src/api/main.py).  The process is a single asyncio   *)
(* event loop: a handler runs without interruption from one `await` to the *)
(* next, so every action below is one such stretch of a handler.           *)
(***************************************************************************)
EXTENDS Integers, Sequences, FiniteSets, TLC

\* ------------------------------------------------------------------ bounds
MaxConn == 3      \* transports (WebSocket sockets / SSE streams) ever opened
MaxBurst == 2     \* transports opened where logins and logouts go on as well
MaxHttp == 1      \* HTTP requests that may be suspended inside a broadcast
MaxTokens == 3    \* access tokens that may exist at the same time
MaxUuid == 2      \* conversation ids other than the team-chat ids
MaxCount == 2     \* cap of a presence count in the call-sequence harness
MaxParticipants == 2  \* length of the participant list of a request
MaxMsgs == 3      \* chat messages ever accepted
MaxClock == 1     \* readings of the wall clock (created_at values)

\* ------------------------------------------------------------- identifiers
OrgIds == {"o1", "o2"}
UserIds == {"u1", "u2", "u3", "u4"}
NoUser == "none"
NoOrg == "-"

\* the organization a user signs up to (organization_id of the signup data)
HomeOrg(u) == IF u = "u4" THEN "o2" ELSE "o1"

ConnIds == 1..MaxConn
BurstIds == {c \in ConnIds : c <= MaxBurst}
HttpIds == (MaxConn + 1)..(MaxConn + MaxHttp)
Tasks == ConnIds \cup HttpIds
Tokens == 1..MaxTokens

\* f"team-chat-{organization_id}" and str(uuid.uuid4())
TeamConvId(o) == <<"team", o, 0>>
UuidConvIds == {<<"uuid", NoOrg, n>> : n \in 1..MaxUuid}
NoConv == <<"none", NoOrg, 0>>
ConvIds == {TeamConvId(o) : o \in OrgIds} \cup UuidConvIds

VARIABLES
    users_db,                  \* user id -> [organization_id, is_active, role]
    organizations_db,          \* set of organization ids
    sessions_db,               \* token -> user id (NoUser: token not issued)
    conversations_db,          \* conversation id -> [type, participants, organization_id]
    user_conversations_db,     \* user id -> list of conversation ids
    active_chat_connections,   \* organization id -> list of WebSocket connections
    sse_connections,           \* organization id -> list of SSE queues
    presence_counters,         \* organization id -> (user id -> count)
    pc,                        \* position of the handler that serves a transport
    kind,                      \* "ws" | "sse" | "none" per transport
    user_data,                 \* the user a handler authenticated
    is_open,                   \* the client side of the transport is still there
    first_online,              \* handler local: result of the registration
    went_offline,              \* handler local: result of the cleanup
    bc,                        \* per task: the broadcast_to_organization call it is suspended in
    delivered,                 \* <<transport, event>> pairs handed over in the last step
    issued,                    \* broadcast_to_organization calls started in the last step
    lastOp,                    \* last call of the presence-counter harness
    conversation_messages_db,  \* the messages, in insertion order of the dict
    clock,                     \* datetime.utcnow()
    msg_seq,                   \* uuid4 values drawn for messages so far
    updated_at,                \* conversation id -> conversation['updated_at'], once a message set it
    inbox,                     \* per transport: ids of the chat_message events the client got
    lastReq,                   \* the last message request and its outcome
    active_connections,        \* ConnectionManager: user id -> socket
    user_organizations,        \* ConnectionManager: user id -> organization id
    typing_users               \* ConnectionManager: conversation id -> set of user ids

dbVars == <<users_db, organizations_db, sessions_db>>
convVars == <<conversations_db, user_conversations_db>>
hubVars == <<active_chat_connections, sse_connections, presence_counters>>
handlerVars == <<pc, kind, user_data, is_open, first_online, went_offline>>
msgVars == <<conversation_messages_db, clock, msg_seq, updated_at, lastReq>>
mgrVars == <<active_connections, user_organizations, typing_users>>
vars == <<users_db, organizations_db, sessions_db, conversations_db,
          user_conversations_db, active_chat_connections, sse_connections,
          presence_counters, pc, kind, user_data, is_open, first_online,
          went_offline, bc, delivered, issued, lastOp, conversation_messages_db,
          clock, msg_seq, updated_at, inbox, lastReq, active_connections,
          user_organizations, typing_users>>

\* ----------------------------------------------------------- small helpers
Range(s) == {s[i] : i \in DOMAIN s}

RECURSIVE SeqWithout(_, _)
\* [x for x in s if x != e]
SeqWithout(s, e) ==
    IF s = <<>> THEN <<>>
    ELSE IF Head(s) = e THEN SeqWithout(Tail(s), e)
         ELSE <<Head(s)>> \o SeqWithout(Tail(s), e)

RECURSIVE RemoveFirst(_, _)
\* list.remove(e), with the ValueError of an absent element swallowed
RemoveFirst(s, e) ==
    IF s = <<>> THEN <<>>
    ELSE IF Head(s) = e THEN Tail(s)
         ELSE <<Head(s)>> \o RemoveFirst(Tail(s), e)

\* dict without key k / dict with d[k] = v
DictPop(d, k) == [x \in (DOMAIN d) \ {k} |-> d[x]]
DictPut(d, k, v) == [x \in (DOMAIN d) \cup {k} |-> IF x = k THEN v ELSE d[x]]
EmptyDict == [x \in {} |-> 0]

\* ------------------------------------------------------- presence counters
\* presence_counters.get(org, {}).get(user, 0)
Count(table, o, u) ==
    IF o \in DOMAIN table /\ u \in DOMAIN table[o] THEN table[o][u] ELSE 0

\* _increment_presence: the table after the call
IncrementTable(table, o, u) ==
    LET org == IF o \in DOMAIN table THEN table[o] ELSE EmptyDict
        previous == IF u \in DOMAIN org THEN org[u] ELSE 0
    IN DictPut(table, o, DictPut(org, u, previous + 1))

\* the check made after the increment: the new count is never 0
MutIncrementChecksAfter(table, o, u) == Count(IncrementTable(table, o, u), o, u) > 0

\* _increment_presence: the value returned
IncrementReturns(table, o, u) == Count(table, o, u) = 0

\* the entry is decremented and kept, also when it reaches 0
MutDecrementKeepsZero(table, o, u) ==
    IF o \notin DOMAIN table \/ DOMAIN table[o] = {} THEN table
    ELSE LET org == table[o]
             previous == IF u \in DOMAIN org THEN org[u] ELSE 0
         IN DictPut(table, o, DictPut(org, u, IF previous = 0 THEN 0 ELSE previous - 1))

\* _decrement_presence: the table after the call
DecrementTable(table, o, u) ==
    IF o \notin DOMAIN table \/ DOMAIN table[o] = {} THEN table
    ELSE LET org == table[o]
             previous == IF u \in DOMAIN org THEN org[u] ELSE 0
         IN IF previous <= 1
            THEN LET popped == DictPop(org, u)
                 IN IF DOMAIN popped = {} THEN DictPop(table, o)
                    ELSE DictPut(table, o, popped)
            ELSE DictPut(table, o, DictPut(org, u, previous - 1))

\* "went offline" reported for every decrement of a positive count
MutDecrementReturnsOnAny(table, o, u) ==
    /\ o \in DOMAIN table
    /\ DOMAIN table[o] # {}
    /\ Count(table, o, u) >= 1

\* _decrement_presence: the value returned
DecrementReturns(table, o, u) ==
    /\ o \in DOMAIN table
    /\ DOMAIN table[o] # {}
    /\ Count(table, o, u) <= 1
    /\ Count(table, o, u) > 0

\* ------------------------------------------------------------ user directory
\* user_has_active_session
user_has_active_session(sessions, u) ==
    /\ u # NoUser
    /\ \E tok \in Tokens : sessions[tok] = u

\* verify_access_token / get_current_user: the user of a token, or NoUser
verify_access_token(sessions, users, tok) ==
    IF sessions[tok] # NoUser /\ sessions[tok] \in DOMAIN users
    THEN sessions[tok] ELSE NoUser

FreeTokens(sessions) == {tok \in Tokens : sessions[tok] = NoUser}

\* create_access_token: secrets.token_urlsafe(32) is a token not in use
create_access_token(sessions, u) ==
    LET tok == CHOOSE x \in FreeTokens(sessions) :
                   \A y \in FreeTokens(sessions) : x <= y
    IN [sessions EXCEPT ![tok] = u]

\* ---------------------------------------------------- conversation registry
\* users_db is filled in the order u1, u2, u3, u4 within an organization
UserOrder == <<"u1", "u2", "u3", "u4">>

\* [u['id'] for u in users_db.values() if u.get('organization_id') == org]
OrgUsers(users, o) ==
    LET Member(u) == u \in DOMAIN users /\ users[u].organization_id = o
    IN SelectSeq(UserOrder, Member)

\* the user_conversations_db mapping after conversation cid got participants ps
LinkConversation(uconvs, ps, cid) ==
    [u \in (DOMAIN uconvs) \cup Range(ps) |->
        LET old == IF u \in DOMAIN uconvs THEN uconvs[u] ELSE <<>>
        IN IF u \in Range(ps) /\ cid \notin Range(old) THEN Append(old, cid) ELSE old]

\* create_team_conversation: conversations_db after the call
TeamConversations(convs, users, o) ==
    IF TeamConvId(o) \in DOMAIN convs THEN convs
    ELSE DictPut(convs, TeamConvId(o),
                 [type |-> "team", participants |-> OrgUsers(users, o),
                  organization_id |-> o])

\* create_team_conversation: user_conversations_db after the call
TeamUserConversations(convs, uconvs, users, o) ==
    IF TeamConvId(o) \in DOMAIN convs THEN uconvs
    ELSE LinkConversation(uconvs, OrgUsers(users, o), TeamConvId(o))

\* broadcast_to_conversation: the organization the event is sent to, or NoOrg
\* when the event is dropped
ConversationOrg(convs, users, cid) ==
    IF cid \notin DOMAIN convs THEN NoOrg
    ELSE LET participants == convs[cid].participants
         IN IF participants = <<>> THEN NoOrg
            ELSE IF participants[1] \notin DOMAIN users THEN NoOrg
                 ELSE users[participants[1]].organization_id

\* ------------------------------------------------------------------ events
NoEvent == [type |-> "none", user |-> NoUser, conv |-> NoConv, msg |-> 0]
PresenceEvent(u, online) ==
    [type |-> IF online THEN "online" ELSE "offline", user |-> u, conv |-> NoConv,
     msg |-> 0]
TypingEvent(u, cid) == [type |-> "chat_typing", user |-> u, conv |-> cid, msg |-> 0]
ChatMessageEvent(m) ==
    [type |-> "chat_message", user |-> m.author_id, conv |-> m.conversation_id,
     msg |-> m.id]
MessageDeletedEvent(u, cid, id) ==
    [type |-> "message_deleted", user |-> u, conv |-> cid, msg |-> id]

\* what the clients have seen of the chat_message events after the hand-overs dl
Receive(inb, dl) ==
    [c \in ConnIds |->
        LET got == {d \in dl : d[1] = c /\ d[2].type = "chat_message"}
        IN IF got = {} THEN inb[c]
           ELSE Append(inb[c], (CHOOSE d \in got : TRUE)[2].msg)]

\* --------------------------------------------------------------- broadcasts
\* A suspended broadcast_to_organization call: the organization and event,
\* the excluded socket, the position of the list iterator, the connection
\* whose send_text is awaited, connections_to_remove, and the list object
\* iterated: the one bound in active_chat_connections (live) or one that was
\* unbound meanwhile (frozen).  start and got record the connections that
\* were in the list when the call began and those whose send_text returned.
NoBc == [active |-> FALSE, org |-> NoOrg, ev |-> NoEvent, excl |-> 0, pos |-> 0,
         target |-> 0, live |-> FALSE, frozen |-> <<>>, rem |-> <<>>,
         start |-> {}, got |-> {}]

\* the loop starts over at the head of the list after every send
MutNextTargetFromHead(lst, from, excl) ==
    LET S == {j \in 1..Len(lst) : lst[j] # excl}
    IN IF S = {} THEN 0 ELSE CHOOSE j \in S : \A k \in S : j <= k

\* position of the next list element that is not the excluded socket, 0 if none
NextTarget(lst, from, excl) ==
    LET S == {j \in from..Len(lst) : lst[j] # excl}
    IN IF S = {} THEN 0 ELSE CHOOSE j \in S : \A k \in S : j <= k

\* the list object bound to an organization stops being the one iterated
Freeze(bcs, o, content) ==
    [t \in Tasks |->
        IF bcs[t].active /\ bcs[t].org = o /\ bcs[t].live
        THEN [bcs[t] EXCEPT !.live = FALSE, !.frozen = content]
        ELSE bcs[t]]

RECURSIVE RemoveAll(_, _)
RemoveAll(lst, rem) ==
    IF rem = <<>> THEN lst ELSE RemoveAll(RemoveFirst(lst, Head(rem)), Tail(rem))

\* broadcast_to_sse: every queue of the organization gets the event
\* (put_nowait on an unbounded asyncio.Queue does not fail)
broadcast_to_sse(sse, o, ev) ==
    IF o \in DOMAIN sse THEN {<<sse[o][i], ev>> : i \in DOMAIN sse[o]} ELSE {}

\* broadcast_to_organization after its send loop: prune, drop an empty list,
\* then the SSE queues.  active_chat_connections[org] raises KeyError when
\* the organization's list was dropped during the loop.
FinishBroadcast(t, o, ev, rem, accNow, bcNow, sseNow) ==
    IF o \notin DOMAIN accNow
    THEN IF rem # <<>>
         THEN [status |-> "raised", acc |-> accNow,
               bc |-> [bcNow EXCEPT ![t] = NoBc], delivered |-> {}]
         ELSE [status |-> "done", acc |-> accNow,
               bc |-> [bcNow EXCEPT ![t] = NoBc],
               delivered |-> broadcast_to_sse(sseNow, o, ev)]
    ELSE LET pruned == RemoveAll(accNow[o], rem)
         IN IF pruned = <<>>
            THEN [status |-> "done", acc |-> DictPop(accNow, o),
                  bc |-> [Freeze(bcNow, o, <<>>) EXCEPT ![t] = NoBc],
                  delivered |-> broadcast_to_sse(sseNow, o, ev)]
            ELSE [status |-> "done", acc |-> DictPut(accNow, o, pruned),
                  bc |-> [bcNow EXCEPT ![t] = NoBc],
                  delivered |-> broadcast_to_sse(sseNow, o, ev)]

\* broadcast_to_organization from the call to its first await (or its end)
broadcast_to_organization(t, o, ev, excl, accNow, bcNow, sseNow) ==
    IF o \in DOMAIN accNow
    THEN LET j == NextTarget(accNow[o], 1, excl)
         IN IF j # 0
            THEN [status |-> "suspended", acc |-> accNow,
                  bc |-> [bcNow EXCEPT ![t] =
                            [active |-> TRUE, org |-> o, ev |-> ev, excl |-> excl,
                             pos |-> j, target |-> accNow[o][j], live |-> TRUE,
                             frozen |-> <<>>, rem |-> <<>>,
                             start |-> Range(accNow[o]), got |-> {}]],
                  delivered |-> {}]
            ELSE FinishBroadcast(t, o, ev, <<>>, accNow, bcNow, sseNow)
    ELSE [status |-> "done", acc |-> accNow, bc |-> [bcNow EXCEPT ![t] = NoBc],
          delivered |-> broadcast_to_sse(sseNow, o, ev)]

\* no broadcast is made: the same shape of result
NoBroadcast(t, accNow, bcNow) ==
    [status |-> "done", acc |-> accNow, bc |-> bcNow, delivered |-> {}]

\* broadcast_to_organization from the return of an awaited send_text to the
\* next await (or its end); the send fails when the peer is gone
ResumeBroadcast(t, accNow, bcNow, sseNow, open) ==
    LET b == bcNow[t]
        ok == open[b.target]
        rem == IF ok THEN b.rem ELSE Append(b.rem, b.target)
        sent == IF ok THEN {<<b.target, b.ev>>} ELSE {}
        lst == IF b.live THEN accNow[b.org] ELSE b.frozen
        j == NextTarget(lst, b.pos + 1, b.excl)
    IN IF j # 0
       THEN [status |-> "suspended", acc |-> accNow,
             bc |-> [bcNow EXCEPT ![t] = [b EXCEPT !.pos = j, !.target = lst[j],
                                                   !.rem = rem,
                                                   !.got = b.got \cup {d[1] : d \in sent}]],
             delivered |-> sent]
       ELSE LET f == FinishBroadcast(t, b.org, b.ev, rem, accNow, bcNow, sseNow)
            IN [f EXCEPT !.delivered = sent \cup f.delivered]

\* ------------------------------------------------------- connection registry
NoUserData == [id |-> NoUser, organization_id |-> NoOrg]

\* add_chat_connection: active_chat_connections after the call
add_chat_connection(acc, o, c) ==
    IF o \in DOMAIN acc THEN DictPut(acc, o, Append(acc[o], c))
    ELSE DictPut(acc, o, <<c>>)

\* remove_chat_connection: active_chat_connections after the call; the
\* organization's entry is rebound to a new list or dropped
remove_chat_connection(acc, o, c) ==
    IF o \in DOMAIN acc
    THEN LET remaining == SeqWithout(acc[o], c)
         IN IF remaining # <<>> THEN DictPut(acc, o, remaining)
            ELSE DictPop(acc, o)
    ELSE acc

\* the cleanup of websocket_chat (its finally block) up to its first await
WsCleanup(c, accNow, bcNow, sseNow, presNow, sessions) ==
    LET o == user_data[c].organization_id
        u == user_data[c].id
        acc2 == remove_chat_connection(accNow, o, c)
        bc2 == IF o \in DOMAIN accNow THEN Freeze(bcNow, o, accNow[o]) ELSE bcNow
        went == DecrementReturns(presNow, o, u)
        announce == went /\ ~user_has_active_session(sessions, u)
        out == IF announce
               THEN broadcast_to_organization(c, o, PresenceEvent(u, FALSE), 0,
                                              acc2, bc2, sseNow)
               ELSE NoBroadcast(c, acc2, bc2)
    IN [out |-> out, went |-> went,
        presence |-> DecrementTable(presNow, o, u),
        issued |-> IF announce THEN {[org |-> o, ev |-> PresenceEvent(u, FALSE)]}
                   ELSE {}]

\* transports are numbered in the order in which they are opened
NextTransport(c) == pc[c] = "idle" /\ \A d \in ConnIds : d < c => pc[d] # "idle"

\* ------------------------------------------------------------------ actions
\* websocket_chat: verify_access_token, then await websocket.accept()
WsOpen(c, tok) ==
    LET u == verify_access_token(sessions_db, users_db, tok)
    IN /\ NextTransport(c)
       /\ u # NoUser
       /\ pc' = [pc EXCEPT ![c] = "accepting"]
       /\ kind' = [kind EXCEPT ![c] = "ws"]
       /\ user_data' = [user_data EXCEPT ![c] =
                          [id |-> u, organization_id |-> users_db[u].organization_id]]
       /\ is_open' = [is_open EXCEPT ![c] = TRUE]
       /\ delivered' = {}
       /\ issued' = {}
       /\ UNCHANGED <<dbVars, convVars, hubVars, first_online, went_offline, bc, lastOp>>
       /\ inbox' = Receive(inbox, delivered')
       /\ UNCHANGED <<msgVars, mgrVars>>

\* websocket_chat: verify_access_token finds no user: close(1008) and return
WsReject(c, tok) ==
    /\ NextTransport(c)
    /\ verify_access_token(sessions_db, users_db, tok) = NoUser
    /\ pc' = [pc EXCEPT ![c] = "rejected"]
    /\ kind' = [kind EXCEPT ![c] = "ws"]
    /\ delivered' = {}
    /\ issued' = {}
    /\ UNCHANGED <<dbVars, convVars, hubVars, user_data, is_open, first_online,
                   went_offline, bc, lastOp>>
    /\ inbox' = Receive(inbox, delivered')
    /\ UNCHANGED <<msgVars, mgrVars>>

\* websocket_chat: add_chat_connection, create_team_conversation and the
\* presence-online broadcast up to its first await
WsRegister(c) ==
    LET o == user_data[c].organization_id
        u == user_data[c].id
        acc1 == add_chat_connection(active_chat_connections, o, c)
        first == IncrementReturns(presence_counters, o, u)
        out == IF first
               THEN broadcast_to_organization(c, o, PresenceEvent(u, TRUE), c,
                                              acc1, bc, sse_connections)
               ELSE NoBroadcast(c, acc1, bc)
    IN /\ pc[c] = "accepting"
       /\ kind[c] = "ws"
       /\ presence_counters' = IncrementTable(presence_counters, o, u)
       /\ first_online' = [first_online EXCEPT ![c] = first]
       /\ conversations_db' = TeamConversations(conversations_db, users_db, o)
       /\ user_conversations_db' =
              TeamUserConversations(conversations_db, user_conversations_db, users_db, o)
       /\ active_chat_connections' = out.acc
       /\ bc' = out.bc
       /\ delivered' = out.delivered
       /\ issued' = IF first THEN {[org |-> o, ev |-> PresenceEvent(u, TRUE)]} ELSE {}
       /\ pc' = [pc EXCEPT ![c] = IF out.status = "suspended" THEN "online" ELSE "active"]
       /\ UNCHANGED <<dbVars, sse_connections, kind, user_data, is_open,
                      went_offline, lastOp>>
       /\ inbox' = Receive(inbox, delivered')
       /\ UNCHANGED <<msgVars, mgrVars>>

\* the client goes away: the pending receive raises WebSocketDisconnect, a
\* send to the socket fails, request.is_disconnected() becomes true
ClientDrop(c) ==
    /\ pc[c] \in {"online", "active", "frame", "connecting", "loop", "typing"}
    /\ is_open[c]
    /\ is_open' = [is_open EXCEPT ![c] = FALSE]
    /\ delivered' = {}
    /\ issued' = {}
    /\ UNCHANGED <<dbVars, convVars, hubVars, pc, kind, user_data, first_online,
                   went_offline, bc, lastOp>>
    /\ inbox' = Receive(inbox, delivered')
    /\ UNCHANGED <<msgVars, mgrVars>>

\* websocket_chat: a chat_typing frame; broadcast_to_conversation up to the
\* first await of the broadcast
WsTyping(c, cid) ==
    LET u == user_data[c].id
        o == ConversationOrg(conversations_db, users_db, cid)
        out == IF o # NoOrg
               THEN broadcast_to_organization(c, o, TypingEvent(u, cid), c,
                                              active_chat_connections, bc,
                                              sse_connections)
               ELSE NoBroadcast(c, active_chat_connections, bc)
    IN /\ pc[c] = "active"
       /\ kind[c] = "ws"
       /\ is_open[c]
       /\ active_chat_connections' = out.acc
       /\ bc' = out.bc
       /\ delivered' = out.delivered
       /\ issued' = IF o # NoOrg THEN {[org |-> o, ev |-> TypingEvent(u, cid)]} ELSE {}
       /\ pc' = [pc EXCEPT ![c] = IF out.status = "suspended" THEN "frame" ELSE "active"]
       /\ UNCHANGED <<dbVars, convVars, sse_connections, presence_counters, kind,
                      user_data, is_open, first_online, went_offline, lastOp>>
       /\ inbox' = Receive(inbox, delivered')
       /\ UNCHANGED <<msgVars, mgrVars>>

\* websocket_chat: receive_text raised, the finally block runs
WsClose(c) ==
    LET r == WsCleanup(c, active_chat_connections, bc, sse_connections,
                       presence_counters, sessions_db)
    IN /\ pc[c] = "active"
       /\ kind[c] = "ws"
       /\ ~is_open[c]
       /\ presence_counters' = r.presence
       /\ went_offline' = [went_offline EXCEPT ![c] = r.went]
       /\ active_chat_connections' = r.out.acc
       /\ bc' = r.out.bc
       /\ delivered' = r.out.delivered
       /\ issued' = r.issued
       /\ pc' = [pc EXCEPT ![c] = IF r.out.status = "suspended" THEN "offline"
                                  ELSE "closed"]
       /\ UNCHANGED <<dbVars, convVars, sse_connections, kind, user_data, is_open,
                      first_online, lastOp>>
       /\ inbox' = Receive(inbox, delivered')
       /\ UNCHANGED <<msgVars, mgrVars>>

\* frames that are no chat_message and no chat_typing frame: a text that is
\* no JSON, a JSON value that is no object, an object with a field of the
\* wrong type (a number as content), an object with another type
FrameShapes == {"not_json", "not_object", "bad_field", "unknown_type"}

\* websocket_chat: json.loads fails and the loop continues, or the type is
\* none the loop knows and the loop continues, or payload.get / .strip()
\* raises: except Exception, then the finally block as for a disconnect (the
\* socket is closed when the handler returns; the model closes it here)
WsFrame(c, shape) ==
    LET r == WsCleanup(c, active_chat_connections, bc, sse_connections,
                       presence_counters, sessions_db)
        raises == shape \in {"not_object", "bad_field"}
    IN /\ pc[c] = "active"
       /\ kind[c] = "ws"
       /\ is_open[c]
       /\ lastReq' = [op |-> "frame", user |-> user_data[c].id, conv |-> NoConv,
                      content |-> <<>>, id |-> 0, status |-> shape, response |-> <<>>]
       /\ IF raises
          THEN /\ presence_counters' = r.presence
               /\ went_offline' = [went_offline EXCEPT ![c] = r.went]
               /\ active_chat_connections' = r.out.acc
               /\ bc' = r.out.bc
               /\ delivered' = r.out.delivered
               /\ issued' = r.issued
               /\ pc' = [pc EXCEPT ![c] = IF r.out.status = "suspended" THEN "offline"
                                          ELSE "closed"]
               /\ is_open' = [is_open EXCEPT ![c] = FALSE]
          ELSE /\ delivered' = {}
               /\ issued' = {}
               /\ UNCHANGED <<presence_counters, went_offline, active_chat_connections,
                              bc, pc, is_open>>
       /\ inbox' = Receive(inbox, delivered')
       /\ UNCHANGED <<dbVars, convVars, sse_connections, kind, user_data, first_online,
                      lastOp, conversation_messages_db, clock, msg_seq, updated_at,
                      mgrVars>>

\* chat_stream: verify_access_token, register the queue, _increment_presence
\* and the presence-online broadcast up to its first await
SseOpen(c, tok) ==
    LET u == verify_access_token(sessions_db, users_db, tok)
        o == users_db[u].organization_id
        sse1 == IF o \in DOMAIN sse_connections
                THEN DictPut(sse_connections, o, Append(sse_connections[o], c))
                ELSE DictPut(sse_connections, o, <<c>>)
        first == IncrementReturns(presence_counters, o, u)
        out == IF first
               THEN broadcast_to_organization(c, o, PresenceEvent(u, TRUE), 0,
                                              active_chat_connections, bc, sse1)
               ELSE NoBroadcast(c, active_chat_connections, bc)
    IN /\ NextTransport(c)
       /\ u # NoUser
       /\ kind' = [kind EXCEPT ![c] = "sse"]
       /\ user_data' = [user_data EXCEPT ![c] = [id |-> u, organization_id |-> o]]
       /\ is_open' = [is_open EXCEPT ![c] = TRUE]
       /\ sse_connections' = sse1
       /\ presence_counters' = IncrementTable(presence_counters, o, u)
       /\ first_online' = [first_online EXCEPT ![c] = first]
       /\ active_chat_connections' = out.acc
       /\ bc' = out.bc
       /\ delivered' = out.delivered
       /\ issued' = IF first THEN {[org |-> o, ev |-> PresenceEvent(u, TRUE)]} ELSE {}
       /\ pc' = [pc EXCEPT ![c] = IF out.status = "suspended" THEN "online" ELSE "active"]
       /\ UNCHANGED <<dbVars, convVars, went_offline, lastOp>>
       /\ inbox' = Receive(inbox, delivered')
       /\ UNCHANGED <<msgVars, mgrVars>>

\* event_generator: the client is gone, the finally block runs
SseClose(c) ==
    LET o == user_data[c].organization_id
        u == user_data[c].id
        present == o \in DOMAIN sse_connections /\ c \in Range(sse_connections[o])
        left == RemoveFirst(sse_connections[o], c)
        sse1 == IF ~present THEN sse_connections
                ELSE IF left = <<>> THEN DictPop(sse_connections, o)
                     ELSE DictPut(sse_connections, o, left)
        went == DecrementReturns(presence_counters, o, u)
        announce == went /\ ~user_has_active_session(sessions_db, u)
        out == IF announce
               THEN broadcast_to_organization(c, o, PresenceEvent(u, FALSE), 0,
                                              active_chat_connections, bc, sse1)
               ELSE NoBroadcast(c, active_chat_connections, bc)
    IN /\ pc[c] = "active"
       /\ kind[c] = "sse"
       /\ ~is_open[c]
       /\ sse_connections' = sse1
       /\ presence_counters' = DecrementTable(presence_counters, o, u)
       /\ went_offline' = [went_offline EXCEPT ![c] = went]
       /\ active_chat_connections' = out.acc
       /\ bc' = out.bc
       /\ delivered' = out.delivered
       /\ issued' = IF announce THEN {[org |-> o, ev |-> PresenceEvent(u, FALSE)]}
                    ELSE {}
       /\ pc' = [pc EXCEPT ![c] = IF out.status = "suspended" THEN "offline"
                                  ELSE "closed"]
       /\ UNCHANGED <<dbVars, convVars, kind, user_data, is_open, first_online, lastOp>>
       /\ inbox' = Receive(inbox, delivered')
       /\ UNCHANGED <<msgVars, mgrVars>>

\* a task resumes from an awaited send_text inside broadcast_to_organization
\* and runs to its next await.  When the broadcast returns or raises, the
\* caller goes on: websocket_chat enters or re-enters its receive loop, or -
\* on an exception inside the loop - runs its finally block; an exception in
\* the broadcast made before the loop leaves websocket_chat (and chat_stream)
\* without any cleanup; an HTTP handler has nothing left to do.
BroadcastStep(t) ==
    LET out == ResumeBroadcast(t, active_chat_connections, bc, sse_connections,
                               is_open)
        inLoop == t \in ConnIds /\ pc[t] = "frame"
        chain == inLoop /\ out.status = "raised"
        r == WsCleanup(t, out.acc, out.bc, sse_connections, presence_counters,
                       sessions_db)
        fin == IF chain THEN r.out ELSE out
        nextPc == IF fin.status = "suspended"
                  THEN IF chain THEN "offline" ELSE pc[t]
                  ELSE IF chain THEN "closed"
                  ELSE IF pc[t] = "offline" THEN "closed"
                  ELSE IF pc[t] = "online" /\ out.status = "raised" THEN "crashed"
                  ELSE "active"
    IN /\ bc[t].active
       /\ active_chat_connections' = fin.acc
       /\ bc' = fin.bc
       /\ delivered' = out.delivered \cup fin.delivered
       /\ issued' = IF chain THEN r.issued ELSE {}
       /\ presence_counters' = IF chain THEN r.presence ELSE presence_counters
       /\ went_offline' = IF chain THEN [went_offline EXCEPT ![t] = r.went]
                          ELSE went_offline
       /\ pc' = IF t \in ConnIds THEN [pc EXCEPT ![t] = nextPc] ELSE pc
       /\ is_open' = IF t \in ConnIds /\ nextPc \in {"closed", "crashed"}
                     THEN [is_open EXCEPT ![t] = FALSE] ELSE is_open
       /\ UNCHANGED <<dbVars, convVars, sse_connections, kind, user_data,
                      first_online, lastOp>>
       /\ inbox' = Receive(inbox, delivered')
       /\ UNCHANGED <<msgVars, mgrVars>>

\* login: create_team_conversation, create_access_token and, when the user had
\* no token, the presence-online broadcast up to its first await
Login(u, h) ==
    LET o == users_db[u].organization_id
        was_online == user_has_active_session(sessions_db, u)
        ev == PresenceEvent(u, TRUE)
        out == IF ~was_online
               THEN broadcast_to_organization(h, o, ev, 0, active_chat_connections,
                                              bc, sse_connections)
               ELSE NoBroadcast(h, active_chat_connections, bc)
    IN /\ u \in DOMAIN users_db
       /\ users_db[u].is_active
       /\ o \in organizations_db
       /\ FreeTokens(sessions_db) # {}
       /\ ~bc[h].active
       /\ conversations_db' = TeamConversations(conversations_db, users_db, o)
       /\ user_conversations_db' =
              TeamUserConversations(conversations_db, user_conversations_db, users_db, o)
       /\ sessions_db' = create_access_token(sessions_db, u)
       /\ active_chat_connections' = out.acc
       /\ bc' = out.bc
       /\ delivered' = out.delivered
       /\ issued' = IF ~was_online THEN {[org |-> o, ev |-> ev]} ELSE {}
       /\ UNCHANGED <<users_db, organizations_db, sse_connections, presence_counters,
                      handlerVars, lastOp>>
       /\ inbox' = Receive(inbox, delivered')
       /\ UNCHANGED <<msgVars, mgrVars>>

\* logout: every token of the user is deleted, then the presence-offline
\* broadcast up to its first await
Logout(tok, h) ==
    LET u == verify_access_token(sessions_db, users_db, tok)
        o == users_db[u].organization_id
        sessions1 == [x \in Tokens |-> IF sessions_db[x] = u THEN NoUser
                                       ELSE sessions_db[x]]
        ev == PresenceEvent(u, FALSE)
        out == IF ~user_has_active_session(sessions1, u)
               THEN broadcast_to_organization(h, o, ev, 0, active_chat_connections,
                                              bc, sse_connections)
               ELSE NoBroadcast(h, active_chat_connections, bc)
    IN /\ u # NoUser
       /\ ~bc[h].active
       /\ sessions_db' = sessions1
       /\ active_chat_connections' = out.acc
       /\ bc' = out.bc
       /\ delivered' = out.delivered
       /\ issued' = IF ~user_has_active_session(sessions1, u)
                    THEN {[org |-> o, ev |-> ev]} ELSE {}
       /\ UNCHANGED <<users_db, organizations_db, convVars, sse_connections,
                      presence_counters, handlerVars, lastOp>>
       /\ inbox' = Receive(inbox, delivered')
       /\ UNCHANGED <<msgVars, mgrVars>>

\* -------------------------------------------- conversation and user handlers
\* request.role of update_user_role
RequestRoles == {"developer"}

\* request.participants: lists of at most MaxParticipants user ids
ParticipantLists ==
    UNION {[1..n -> UserIds] : n \in 0..MaxParticipants}

\* str(uuid.uuid4()): an id no conversation has
FreshUuids(convs) == UuidConvIds \ DOMAIN convs

\* create_conversation: request.id or a new uuid
RequestedConvId(convs, rid) ==
    IF rid # NoConv THEN rid
    ELSE CHOOSE x \in FreshUuids(convs) : \A y \in FreshUuids(convs) : x[3] <= y[3]

\* create_conversation: the participants after the current user was appended
RequestParticipants(u, parts) ==
    IF u \in Range(parts) THEN parts ELSE Append(parts, u)

\* create_conversation: a direct conversation needs len(participants) == 2
DirectSizeAccepted(u, type, parts) ==
    type = "direct" => Len(RequestParticipants(u, parts)) = 2

\* create_conversation: every participant is a user of the caller's organization
ParticipantsAccepted(users, u, parts) ==
    \A p \in Range(RequestParticipants(u, parts)) :
        /\ p \in DOMAIN users
        /\ users[p].organization_id = users[u].organization_id

\* create_conversation (POST /api/chat/conversations): a request with the id
\* of a conversation that exists is answered with that conversation; any
\* other request is validated and creates the conversation
CreateConversation(tok, rid, type, parts) ==
    LET u == verify_access_token(sessions_db, users_db, tok)
        cid == RequestedConvId(conversations_db, rid)
        exists == cid \in DOMAIN conversations_db
        participants == RequestParticipants(u, parts)
        conversation == IF exists THEN conversations_db[cid]
                        ELSE [type |-> type, participants |-> participants,
                              organization_id |-> users_db[u].organization_id]
    IN /\ u # NoUser
       /\ rid = NoConv => FreshUuids(conversations_db) # {}
       /\ ~exists => /\ DirectSizeAccepted(u, type, parts)
                     /\ ParticipantsAccepted(users_db, u, parts)
       /\ conversations_db' = DictPut(conversations_db, cid, conversation)
       /\ user_conversations_db' =
              IF exists THEN user_conversations_db
              ELSE LinkConversation(user_conversations_db, participants, cid)
       /\ lastReq' = [op |-> "create", user |-> u, conv |-> cid, content |-> <<>>,
                      id |-> 0, status |-> IF exists THEN "existing" ELSE "created",
                      response |-> <<conversation>>]
       /\ delivered' = {}
       /\ issued' = {}
       /\ UNCHANGED <<dbVars, hubVars, handlerVars, bc, lastOp>>
       /\ inbox' = Receive(inbox, delivered')
       /\ UNCHANGED <<conversation_messages_db, clock, msg_seq, updated_at, mgrVars>>

\* verify_otp: a new organization with its first user (super_admin), its team
\* conversation, an access token and the presence-online broadcast
VerifyOtp(u, h) ==
    LET o == HomeOrg(u)
        users1 == DictPut(users_db, u, [organization_id |-> o, is_active |-> TRUE,
                                        role |-> "super_admin"])
        ev == PresenceEvent(u, TRUE)
        was_online == user_has_active_session(sessions_db, u)
        out == IF ~was_online
               THEN broadcast_to_organization(h, o, ev, 0, active_chat_connections,
                                              bc, sse_connections)
               ELSE NoBroadcast(h, active_chat_connections, bc)
    IN /\ u \notin DOMAIN users_db
       /\ o \notin organizations_db
       /\ FreeTokens(sessions_db) # {}
       /\ ~bc[h].active
       /\ users_db' = users1
       /\ organizations_db' = organizations_db \cup {o}
       /\ conversations_db' = TeamConversations(conversations_db, users1, o)
       /\ user_conversations_db' =
              TeamUserConversations(conversations_db, user_conversations_db, users1, o)
       /\ sessions_db' = create_access_token(sessions_db, u)
       /\ active_chat_connections' = out.acc
       /\ bc' = out.bc
       /\ delivered' = out.delivered
       /\ issued' = IF ~was_online THEN {[org |-> o, ev |-> ev]} ELSE {}
       /\ UNCHANGED <<sse_connections, presence_counters, handlerVars, lastOp>>
       /\ inbox' = Receive(inbox, delivered')
       /\ UNCHANGED <<msgVars, mgrVars>>

\* verify_otp_member: the new user is appended to the team conversation
TeamWithMember(convs, o, u) ==
    IF TeamConvId(o) \in DOMAIN convs
       /\ u \notin Range(convs[TeamConvId(o)].participants)
    THEN [convs EXCEPT ![TeamConvId(o)].participants = Append(@, u)]
    ELSE convs

\* verify_otp_member: a new user (developer) of an existing organization
VerifyOtpMember(u, h) ==
    LET o == HomeOrg(u)
        ev == PresenceEvent(u, TRUE)
        was_online == user_has_active_session(sessions_db, u)
        out == IF ~was_online
               THEN broadcast_to_organization(h, o, ev, 0, active_chat_connections,
                                              bc, sse_connections)
               ELSE NoBroadcast(h, active_chat_connections, bc)
    IN /\ u \notin DOMAIN users_db
       /\ o \in organizations_db
       /\ FreeTokens(sessions_db) # {}
       /\ ~bc[h].active
       /\ users_db' = DictPut(users_db, u, [organization_id |-> o, is_active |-> TRUE,
                                            role |-> "developer"])
       /\ conversations_db' = TeamWithMember(conversations_db, o, u)
       /\ user_conversations_db' =
              IF TeamConvId(o) \in DOMAIN conversations_db
              THEN LinkConversation(user_conversations_db, <<u>>, TeamConvId(o))
              ELSE user_conversations_db
       /\ sessions_db' = create_access_token(sessions_db, u)
       /\ active_chat_connections' = out.acc
       /\ bc' = out.bc
       /\ delivered' = out.delivered
       /\ issued' = IF ~was_online THEN {[org |-> o, ev |-> ev]} ELSE {}
       /\ UNCHANGED <<organizations_db, sse_connections, presence_counters,
                      handlerVars, lastOp>>
       /\ inbox' = Receive(inbox, delivered')
       /\ UNCHANGED <<msgVars, mgrVars>>

\* update_user_role: a super_admin sets the role and, when given, is_active
\* of a user of the same organization
UpdateUserRole(tok, target, role, active) ==
    LET u == verify_access_token(sessions_db, users_db, tok)
    IN /\ u # NoUser
       /\ users_db[u].role = "super_admin"
       /\ target \in DOMAIN users_db
       /\ users_db[target].organization_id = users_db[u].organization_id
       /\ users_db' = [users_db EXCEPT ![target].role = role,
                                       ![target].is_active =
                                           IF active = "unset" THEN @ ELSE active = "true"]
       /\ delivered' = {}
       /\ issued' = {}
       /\ UNCHANGED <<organizations_db, sessions_db, convVars, hubVars, handlerVars,
                      bc, lastOp>>
       /\ inbox' = Receive(inbox, delivered')
       /\ UNCHANGED <<msgVars, mgrVars>>

\* debug_clear: every table is emptied; the handlers that are running keep
\* their locals and the list objects they iterate
DebugClear ==
    /\ users_db' = EmptyDict
    /\ organizations_db' = {}
    /\ sessions_db' = [tok \in Tokens |-> NoUser]
    /\ conversations_db' = EmptyDict
    /\ user_conversations_db' = EmptyDict
    /\ active_chat_connections' = EmptyDict
    /\ sse_connections' = EmptyDict
    /\ presence_counters' = EmptyDict
    /\ bc' = [t \in Tasks |->
                IF bc[t].active /\ bc[t].live
                THEN [bc[t] EXCEPT !.live = FALSE,
                                   !.frozen = active_chat_connections[bc[t].org]]
                ELSE bc[t]]
    /\ delivered' = {}
    /\ issued' = {}
    /\ UNCHANGED <<handlerVars, lastOp>>
    /\ conversation_messages_db' = <<>>
    /\ updated_at' = EmptyDict
    /\ inbox' = Receive(inbox, delivered')
    /\ UNCHANGED <<clock, msg_seq, lastReq, mgrVars>>

\* ---------------------------------------------------------------- messages
\* a text is a list of characters; Blank stands for any whitespace character
Blank == " "
Texts == {<<"x">>, <<Blank, "x">>, <<"x", Blank>>, <<Blank>>}

RECURSIVE LStrip(_)
LStrip(s) == IF s # <<>> /\ Head(s) = Blank THEN LStrip(Tail(s)) ELSE s

RECURSIVE RStrip(_)
RStrip(s) ==
    IF s # <<>> /\ s[Len(s)] = Blank THEN RStrip(SubSeq(s, 1, Len(s) - 1)) ELSE s

\* only the leading whitespace is removed
MutStripLeft(s) == LStrip(s)

\* str.strip()
strip(s) == RStrip(LStrip(s))

\* conversation ids of a request: "team-chat", an id that starts with
\* f"team-chat-{o}" and goes on, and NoConv for a request without the field
LegacyTeamChat == <<"team", NoOrg, 0>>
StaleTeamConvId(o) == <<"team", o, 1>>
RequestConvIds ==
    ConvIds \cup {NoConv, LegacyTeamChat} \cup {StaleTeamConvId(o) : o \in OrgIds}

\* the conversation a message request of a user of organization o is stored
\* under, NoConv when the conversation does not exist
ResolveConversation(convs, cid, o) ==
    LET named == IF cid \in {NoConv, LegacyTeamChat} THEN TeamConvId(o) ELSE cid
    IN IF named \in DOMAIN convs THEN named
       ELSE IF named[1] = "team" /\ named[2] = o THEN TeamConvId(o)
       ELSE NoConv

NoReq == [op |-> "none", user |-> NoUser, conv |-> NoConv, content |-> <<>>,
          id |-> 0, status |-> "none", response |-> <<>>]

\* normalize_message_record: the sender_id alias of author_id
normalize_message_record(m) ==
    IF m.sender_id = NoUser /\ m.author_id # NoUser
    THEN [m EXCEPT !.sender_id = m.author_id]
    ELSE m

\* build_message_response
build_message_response(m) ==
    LET n == normalize_message_record(m)
    IN [id |-> n.id, content |-> n.content,
        sender_id |-> IF n.sender_id # NoUser THEN n.sender_id ELSE n.author_id,
        conversation_id |-> n.conversation_id, created_at |-> n.created_at]

RECURSIVE SortedInsert(_, _)
\* m goes behind every message whose created_at is not larger
SortedInsert(s, m) ==
    IF s = <<>> THEN <<m>>
    ELSE IF s[Len(s)].created_at <= m.created_at THEN Append(s, m)
    ELSE Append(SortedInsert(SubSeq(s, 1, Len(s) - 1), m), s[Len(s)])

RECURSIVE SortByCreatedAt(_)
\* list.sort(key=created_at), a stable sort
SortByCreatedAt(s) ==
    IF s = <<>> THEN <<>>
    ELSE SortedInsert(SortByCreatedAt(SubSeq(s, 1, Len(s) - 1)), s[Len(s)])

RECURSIVE Responses(_)
\* [build_message_response(msg) for msg in messages]
Responses(s) ==
    IF s = <<>> THEN <<>>
    ELSE <<build_message_response(Head(s))>> \o Responses(Tail(s))

\* get_conversation_messages: the response list
get_conversation_messages(db, cid) ==
    LET InConv(m) == m.conversation_id = cid
    IN Responses(SortByCreatedAt(SelectSeq(db, InConv)))

\* the message record both send paths build; the HTTP path normalizes it
NewMessage(id, content, u, cid, now, normalized) ==
    LET m == [id |-> id, content |-> content, author_id |-> u, sender_id |-> NoUser,
              conversation_id |-> cid, created_at |-> now]
    IN IF normalized THEN normalize_message_record(m) ELSE m

\* the participants of the conversation are not looked at
MutMessageRequestAnySender(u, o, cid, text) ==
    LET content == strip(text)
        resolved == ResolveConversation(conversations_db, cid, o)
    IN [content |-> content,
        conv |-> resolved,
        convs |-> conversations_db,
        uconvs |-> user_conversations_db,
        status |-> IF content = <<>> THEN "empty"
                   ELSE IF resolved \notin DOMAIN conversations_db THEN "not_found"
                   ELSE "accepted"]

\* the outcome of a message request of user u of organization o: an empty
\* text is refused first; a missing conversation whose id starts with the
\* team-chat id of o makes create_team_conversation run
MessageRequest(u, o, cid, text) ==
    LET content == strip(text)
        resolved == ResolveConversation(conversations_db, cid, o)
        creates == /\ content # <<>>
                   /\ resolved = TeamConvId(o)
                   /\ resolved \notin DOMAIN conversations_db
        convs == IF creates THEN TeamConversations(conversations_db, users_db, o)
                 ELSE conversations_db
    IN [content |-> content,
        conv |-> resolved,
        convs |-> convs,
        uconvs |-> IF creates
                   THEN TeamUserConversations(conversations_db, user_conversations_db,
                                              users_db, o)
                   ELSE user_conversations_db,
        status |-> IF content = <<>> THEN "empty"
                   ELSE IF resolved = NoConv THEN "not_found"
                   ELSE IF u \notin Range(convs[resolved].participants) THEN "denied"
                   ELSE "accepted"]

\* websocket_chat: a chat_message frame; the message is stored, then
\* broadcast_to_conversation runs up to the first await of the broadcast
WsMessage(c, cid, text, now) ==
    LET u == user_data[c].id
        org_id == user_data[c].organization_id
        req == MessageRequest(u, org_id, cid, text)
        accepted == req.status = "accepted"
        message == NewMessage(msg_seq + 1, req.content, u, req.conv, now, FALSE)
        o == ConversationOrg(req.convs, users_db, req.conv)
        out == IF accepted /\ o # NoOrg
               THEN broadcast_to_organization(c, o, ChatMessageEvent(message), 0,
                                              active_chat_connections, bc,
                                              sse_connections)
               ELSE NoBroadcast(c, active_chat_connections, bc)
    IN /\ pc[c] = "active"
       /\ kind[c] = "ws"
       /\ is_open[c]
       /\ msg_seq < MaxMsgs
       /\ now \in clock..MaxClock
       /\ conversations_db' = req.convs
       /\ user_conversations_db' = req.uconvs
       /\ conversation_messages_db' = IF accepted
                                      THEN Append(conversation_messages_db, message)
                                      ELSE conversation_messages_db
       /\ msg_seq' = IF accepted THEN msg_seq + 1 ELSE msg_seq
       /\ clock' = IF accepted THEN now ELSE clock
       /\ updated_at' = IF accepted THEN DictPut(updated_at, req.conv, now)
                        ELSE updated_at
       /\ lastReq' = [op |-> "ws_send", user |-> u, conv |-> cid, content |-> text,
                      id |-> IF accepted THEN msg_seq + 1 ELSE 0,
                      status |-> req.status, response |-> <<>>]
       /\ active_chat_connections' = out.acc
       /\ bc' = out.bc
       /\ delivered' = out.delivered
       /\ issued' = IF accepted /\ o # NoOrg
                    THEN {[org |-> o, ev |-> ChatMessageEvent(message)]} ELSE {}
       /\ pc' = [pc EXCEPT ![c] = IF out.status = "suspended" THEN "frame" ELSE "active"]
       /\ inbox' = Receive(inbox, delivered')
       /\ UNCHANGED <<dbVars, sse_connections, presence_counters, kind, user_data,
                      is_open, first_online, went_offline, lastOp, mgrVars>>

\* send_chat_message: the message is stored, then broadcast_to_conversation
\* runs up to the first await of the broadcast
SendChatMessage(tok, h, cid, text, now) ==
    LET u == verify_access_token(sessions_db, users_db, tok)
        org_id == users_db[u].organization_id
        req == MessageRequest(u, org_id, cid, text)
        accepted == req.status = "accepted"
        message == NewMessage(msg_seq + 1, req.content, u, req.conv, now, TRUE)
        o == ConversationOrg(req.convs, users_db, req.conv)
        out == IF accepted /\ o # NoOrg
               THEN broadcast_to_organization(h, o, ChatMessageEvent(message), 0,
                                              active_chat_connections, bc,
                                              sse_connections)
               ELSE NoBroadcast(h, active_chat_connections, bc)
    IN /\ u # NoUser
       /\ ~bc[h].active
       /\ msg_seq < MaxMsgs
       /\ now \in clock..MaxClock
       /\ conversations_db' = req.convs
       /\ user_conversations_db' = req.uconvs
       /\ conversation_messages_db' = IF accepted
                                      THEN Append(conversation_messages_db, message)
                                      ELSE conversation_messages_db
       /\ msg_seq' = IF accepted THEN msg_seq + 1 ELSE msg_seq
       /\ clock' = IF accepted THEN now ELSE clock
       /\ updated_at' = IF accepted THEN DictPut(updated_at, req.conv, now)
                        ELSE updated_at
       /\ lastReq' = [op |-> "http_send", user |-> u, conv |-> cid, content |-> text,
                      id |-> IF accepted THEN msg_seq + 1 ELSE 0,
                      status |-> req.status,
                      response |-> IF accepted THEN <<build_message_response(message)>>
                                   ELSE <<>>]
       /\ active_chat_connections' = out.acc
       /\ bc' = out.bc
       /\ delivered' = out.delivered
       /\ issued' = IF accepted /\ o # NoOrg
                    THEN {[org |-> o, ev |-> ChatMessageEvent(message)]} ELSE {}
       /\ inbox' = Receive(inbox, delivered')
       /\ UNCHANGED <<dbVars, sse_connections, presence_counters, handlerVars, lastOp,
                      mgrVars>>

\* get_conversation_messages: the stored records of the conversation are
\* normalized in place, the response is the sorted list
GetMessages(tok, cid) ==
    LET u == verify_access_token(sessions_db, users_db, tok)
        status == IF cid \notin DOMAIN conversations_db THEN "not_found"
                  ELSE IF u \notin Range(conversations_db[cid].participants)
                  THEN "denied" ELSE "ok"
    IN /\ u # NoUser
       /\ conversation_messages_db' =
              IF status = "ok"
              THEN [i \in DOMAIN conversation_messages_db |->
                      IF conversation_messages_db[i].conversation_id = cid
                      THEN normalize_message_record(conversation_messages_db[i])
                      ELSE conversation_messages_db[i]]
              ELSE conversation_messages_db
       /\ lastReq' = [op |-> "history", user |-> u, conv |-> cid, content |-> <<>>,
                      id |-> 0, status |-> status,
                      response |-> IF status = "ok"
                                   THEN get_conversation_messages(conversation_messages_db,
                                                                  cid)
                                   ELSE <<>>]
       /\ delivered' = {}
       /\ issued' = {}
       /\ inbox' = Receive(inbox, delivered')
       /\ UNCHANGED <<dbVars, convVars, hubVars, handlerVars, bc, lastOp, clock,
                      msg_seq, updated_at, mgrVars>>

\* the record and every record stored after it go
MutDeleteRecordTruncates(db, id) ==
    LET Before(m) == m.id < id
    IN SelectSeq(db, Before)

\* del conversation_messages_db[message_id]
DeleteRecord(db, id) ==
    LET Other(m) == m.id # id
    IN SelectSeq(db, Other)

\* delete_message: the record is deleted, then the message_deleted broadcast
\* runs up to its first await; an exception of the broadcast is caught
DeleteMessage(tok, h, id) ==
    LET u == verify_access_token(sessions_db, users_db, tok)
        Is(m) == m.id = id
        found == SelectSeq(conversation_messages_db, Is)
        message == found[1]
        cid == message.conversation_id
        status == IF found = <<>> THEN "not_found"
                  ELSE IF message.author_id # u
                          /\ users_db[u].role \notin {"admin", "manager"}
                  THEN "denied"
                  ELSE IF cid \notin DOMAIN conversations_db
                          \/ u \notin Range(conversations_db[cid].participants)
                  THEN "denied"
                  ELSE "ok"
        o == IF status = "ok" THEN ConversationOrg(conversations_db, users_db, cid)
             ELSE NoOrg
        ev == MessageDeletedEvent(u, cid, id)
        out == IF o # NoOrg
               THEN broadcast_to_organization(h, o, ev, 0, active_chat_connections, bc,
                                              sse_connections)
               ELSE NoBroadcast(h, active_chat_connections, bc)
    IN /\ u # NoUser
       /\ ~bc[h].active
       /\ conversation_messages_db' = IF status = "ok"
                                      THEN DeleteRecord(conversation_messages_db, id)
                                      ELSE conversation_messages_db
       /\ lastReq' = [op |-> "delete", user |-> u,
                      conv |-> IF found = <<>> THEN NoConv ELSE cid,
                      content |-> <<>>, id |-> id, status |-> status, response |-> <<>>]
       /\ active_chat_connections' = out.acc
       /\ bc' = out.bc
       /\ delivered' = out.delivered
       /\ issued' = IF o # NoOrg THEN {[org |-> o, ev |-> ev]} ELSE {}
       /\ inbox' = Receive(inbox, delivered')
       /\ UNCHANGED <<dbVars, convVars, sse_connections, presence_counters,
                      handlerVars, lastOp, clock, msg_seq, updated_at, mgrVars>>

\* ------------------------------------------------------ ConnectionManager
\* (websocket_manager.py, served by websocket_endpoint of chat_routes.py)
Manager == [connections |-> active_connections, organizations |-> user_organizations,
            typing |-> typing_users]

\* the typing sets are left as they are
MutDisconnectKeepsTyping(m, u) ==
    [connections |-> DictPop(m.connections, u),
     organizations |-> DictPop(m.organizations, u),
     typing |-> m.typing]

\* ConnectionManager.disconnect: the tables after the call
disconnect(m, u) ==
    [connections |-> DictPop(m.connections, u),
     organizations |-> DictPop(m.organizations, u),
     typing |-> [cid \in DOMAIN m.typing |-> m.typing[cid] \ {u}]]

RECURSIVE DisconnectEach(_, _)
\* for user_id in disconnected_users: self.disconnect(user_id)
DisconnectEach(m, D) ==
    IF D = {} THEN m
    ELSE LET u == CHOOSE x \in D : TRUE
         IN DisconnectEach(disconnect(m, u), D \ {u})

\* ConnectionManager.set_typing_status: typing_users after the call
set_typing_status(typing, cid, u, is_typing) ==
    LET old == IF cid \in DOMAIN typing THEN typing[cid] ELSE {}
    IN DictPut(typing, cid, IF is_typing THEN old \cup {u} ELSE old \ {u})

\* the users a broadcast may have found unreachable: a socket of theirs is gone
Unreachable ==
    {user_data[c].id : c \in {x \in ConnIds : kind[x] = "mgr" /\ ~is_open[x]}}

\* websocket_endpoint: an active user is authenticated; ConnectionManager.connect
\* stores the socket and awaits the user_online broadcast
MgrConnect(c, u) ==
    /\ pc[c] = "idle"
    /\ u \in DOMAIN users_db
    /\ users_db[u].is_active
    /\ pc' = [pc EXCEPT ![c] = "connecting"]
    /\ kind' = [kind EXCEPT ![c] = "mgr"]
    /\ user_data' = [user_data EXCEPT
                       ![c] = [id |-> u, organization_id |-> users_db[u].organization_id]]
    /\ is_open' = [is_open EXCEPT ![c] = TRUE]
    /\ active_connections' = DictPut(active_connections, u, c)
    /\ user_organizations' = DictPut(user_organizations, u, users_db[u].organization_id)
    /\ delivered' = {}
    /\ issued' = {}
    /\ inbox' = Receive(inbox, delivered')
    /\ UNCHANGED <<dbVars, convVars, hubVars, first_online, went_offline, bc, lastOp,
                   msgVars, typing_users>>

\* websocket_endpoint: a typing frame; set_typing_status, then the handler
\* awaits broadcast_to_conversation
MgrTyping(c, cid) ==
    /\ pc[c] = "loop"
    /\ is_open[c]
    /\ typing_users' = set_typing_status(typing_users, cid, user_data[c].id, TRUE)
    /\ pc' = [pc EXCEPT ![c] = "typing"]
    /\ delivered' = {}
    /\ issued' = {}
    /\ inbox' = Receive(inbox, delivered')
    /\ UNCHANGED <<dbVars, convVars, hubVars, kind, user_data, is_open, first_online,
                   went_offline, bc, lastOp, msgVars, active_connections,
                   user_organizations>>

\* websocket_endpoint: the receive loop is left (the client went away or a
\* frame could not be handled) and the finally block calls disconnect, then
\* awaits the user_offline broadcast when the user still had an organization
MgrDisconnect(c) ==
    LET u == user_data[c].id
        m == disconnect(Manager, u)
    IN /\ pc[c] = "loop"
       /\ active_connections' = m.connections
       /\ user_organizations' = m.organizations
       /\ typing_users' = m.typing
       /\ pc' = [pc EXCEPT ![c] = IF u \in DOMAIN user_organizations
                                  THEN "leaving" ELSE "closed"]
       /\ is_open' = [is_open EXCEPT ![c] = FALSE]
       /\ delivered' = {}
       /\ issued' = {}
       /\ inbox' = Receive(inbox, delivered')
       /\ UNCHANGED <<dbVars, convVars, hubVars, kind, user_data, first_online,
                      went_offline, bc, lastOp, msgVars>>

\* an awaited broadcast of the manager ends: it disconnects the users D whose
\* send failed, or - in broadcast_to_organization, which iterates the dict of
\* connections across its awaits - it raises because the dict changed size;
\* connect then leaves websocket_endpoint before its try block
MgrResume(c, D, raised) ==
    LET m == DisconnectEach(Manager, D)
    IN /\ pc[c] \in {"connecting", "typing", "leaving"}
       /\ D \subseteq Unreachable
       /\ raised => (pc[c] # "typing" /\ D = {})
       /\ active_connections' = m.connections
       /\ user_organizations' = m.organizations
       /\ typing_users' = m.typing
       /\ pc' = [pc EXCEPT ![c] = IF pc[c] = "leaving" THEN "closed"
                                  ELSE IF raised THEN "crashed" ELSE "loop"]
       /\ is_open' = [is_open EXCEPT ![c] = is_open[c] /\ pc'[c] = "loop"]
       /\ delivered' = {}
       /\ issued' = {}
       /\ inbox' = Receive(inbox, delivered')
       /\ UNCHANGED <<dbVars, convVars, hubVars, kind, user_data, first_online,
                      went_offline, bc, lastOp, msgVars>>

\* ConnectionManager.send_personal_message: the socket stored for the user is
\* sent to (ok: the send succeeds, which takes a client that is still there);
\* a failed send calls disconnect(user_id); lastOp records the socket tried
\* and the value returned
MgrSend(u, ok) ==
    LET registered == u \in DOMAIN active_connections
        websocket == IF registered THEN active_connections[u] ELSE 0
        m == IF registered /\ ~ok THEN disconnect(Manager, u) ELSE Manager
    IN /\ ok => (registered /\ is_open[websocket])
       /\ active_connections' = m.connections
       /\ user_organizations' = m.organizations
       /\ typing_users' = m.typing
       /\ lastOp' = [op |-> "send", org |-> NoOrg, user |-> u, conn |-> websocket,
                     ret |-> ok]
       /\ delivered' = {}
       /\ issued' = {}
       /\ inbox' = Receive(inbox, delivered')
       /\ UNCHANGED <<dbVars, convVars, hubVars, handlerVars, bc, msgVars>>

\* ------------------------------------------------------- health endpoints
HealthPaths == {"/healthz", "/health", "/test"}

\* the answer is ok only while somebody is logged in
MutHealthCheck(path) ==
    /\ lastReq' = [op |-> path, user |-> NoUser, conv |-> NoConv, content |-> <<>>,
                   id |-> 0, status |-> "200",
                   response |-> <<[ok |-> \E tok \in Tokens : sessions_db[tok] # NoUser,
                                   service |-> "Scope API", version |-> "1.0.0"]>>]
    /\ delivered' = {}
    /\ issued' = {}
    /\ inbox' = Receive(inbox, delivered')
    /\ UNCHANGED <<dbVars, convVars, hubVars, handlerVars, bc, lastOp,
                   conversation_messages_db, clock, msg_seq, updated_at, mgrVars>>

\* health_check (GET /healthz, which also logs the sizes of the tables) and
\* test_endpoint (GET /health and /test): the HealthResponse, without its
\* timestamp, is the response of the request
HealthCheck(path) ==
    /\ lastReq' = [op |-> path, user |-> NoUser, conv |-> NoConv, content |-> <<>>,
                   id |-> 0, status |-> "200",
                   response |-> <<[ok |-> TRUE, service |-> "Scope API",
                                   version |-> "1.0.0"]>>]
    /\ delivered' = {}
    /\ issued' = {}
    /\ inbox' = Receive(inbox, delivered')
    /\ UNCHANGED <<dbVars, convVars, hubVars, handlerVars, bc, lastOp,
                   conversation_messages_db, clock, msg_seq, updated_at, mgrVars>>

\* ----------------------------------------------- presence-counter harness
NoOp == [op |-> "none", org |-> NoOrg, user |-> NoUser, conn |-> 0, ret |-> FALSE]

\* one call of _increment_presence with arbitrary arguments
CallIncrement(o, u) ==
    /\ Count(presence_counters, o, u) < MaxCount
    /\ presence_counters' = IncrementTable(presence_counters, o, u)
    /\ lastOp' = [op |-> "increment", org |-> o, user |-> u, conn |-> 0,
                  ret |-> IncrementReturns(presence_counters, o, u)]
    /\ UNCHANGED <<dbVars, convVars, active_chat_connections, sse_connections,
                   handlerVars, bc, delivered, issued>>
    /\ inbox' = Receive(inbox, delivered')
    /\ UNCHANGED <<msgVars, mgrVars>>

\* one call of _decrement_presence with arbitrary arguments
CallDecrement(o, u) ==
    /\ presence_counters' = DecrementTable(presence_counters, o, u)
    /\ lastOp' = [op |-> "decrement", org |-> o, user |-> u, conn |-> 0,
                  ret |-> DecrementReturns(presence_counters, o, u)]
    /\ UNCHANGED <<dbVars, convVars, active_chat_connections, sse_connections,
                   handlerVars, bc, delivered, issued>>
    /\ inbox' = Receive(inbox, delivered')
    /\ UNCHANGED <<msgVars, mgrVars>>

\* one call of add_chat_connection for a socket that was not registered before
CallAdd(o, c, u) ==
    /\ pc[c] = "idle"
    /\ Count(presence_counters, o, u) < MaxCount
    /\ active_chat_connections' = add_chat_connection(active_chat_connections, o, c)
    /\ presence_counters' = IncrementTable(presence_counters, o, u)
    /\ lastOp' = [op |-> "add", org |-> o, user |-> u, conn |-> c,
                  ret |-> IncrementReturns(presence_counters, o, u)]
    /\ pc' = [pc EXCEPT ![c] = "active"]
    /\ kind' = [kind EXCEPT ![c] = "ws"]
    /\ user_data' = [user_data EXCEPT ![c] = [id |-> u, organization_id |-> o]]
    /\ delivered' = {}
    /\ issued' = {}
    /\ inbox' = Receive(inbox, delivered')
    /\ UNCHANGED <<dbVars, convVars, sse_connections, is_open, first_online,
                   went_offline, bc, msgVars, mgrVars>>

\* one call of remove_chat_connection for a socket that is or was registered,
\* with the arguments of its registration
CallRemove(c) ==
    LET o == user_data[c].organization_id
        u == user_data[c].id
    IN /\ pc[c] \in {"active", "closed"}
       /\ active_chat_connections' = remove_chat_connection(active_chat_connections, o, c)
       /\ presence_counters' = DecrementTable(presence_counters, o, u)
       /\ lastOp' = [op |-> "remove", org |-> o, user |-> u, conn |-> c,
                     ret |-> DecrementReturns(presence_counters, o, u)]
       /\ pc' = [pc EXCEPT ![c] = "closed"]
       /\ delivered' = {}
       /\ issued' = {}
       /\ inbox' = Receive(inbox, delivered')
       /\ UNCHANGED <<dbVars, convVars, sse_connections, kind, user_data, is_open,
                      first_online, went_offline, bc, msgVars, mgrVars>>

\* ---------------------------------------------------------- initial states
\* The state after startup_event when the data directory holds the users U
\* (all active) with their organizations and the conversations fileConvs:
\* load_chat_data_from_files then creates the team conversation of every
\* organization.  sessions_db is empty then; logins add the tokens of sess.
UuidOrder == [n \in 1..MaxUuid |-> <<"uuid", NoOrg, n>>]

Loaded(U, sess, fileConvs) ==
    LET users == [u \in U |->
                    [organization_id |-> HomeOrg(u), is_active |-> TRUE,
                     role |-> IF u \in {"u1", "u4"} THEN "super_admin"
                              ELSE "developer"]]
        orgs == {HomeOrg(u) : u \in U}
        InFile(u) == LET Mine(cid) == cid \in DOMAIN fileConvs
                                      /\ u \in Range(fileConvs[cid].participants)
                     IN SelectSeq(UuidOrder, Mine)
    IN /\ users_db = users
       /\ organizations_db = orgs
       /\ sessions_db = sess
       /\ conversations_db =
              [cid \in {TeamConvId(o) : o \in orgs} \cup DOMAIN fileConvs |->
                  IF cid \in DOMAIN fileConvs THEN fileConvs[cid]
                  ELSE [type |-> "team", participants |-> OrgUsers(users, cid[2]),
                        organization_id |-> cid[2]]]
       /\ user_conversations_db =
              [u \in U |-> Append(InFile(u), TeamConvId(HomeOrg(u)))]
       /\ active_chat_connections = EmptyDict
       /\ sse_connections = EmptyDict
       /\ presence_counters = EmptyDict
       /\ pc = [c \in ConnIds |-> "idle"]
       /\ kind = [c \in ConnIds |-> "none"]
       /\ user_data = [c \in ConnIds |-> NoUserData]
       /\ is_open = [c \in ConnIds |-> FALSE]
       /\ first_online = [c \in ConnIds |-> FALSE]
       /\ went_offline = [c \in ConnIds |-> FALSE]
       /\ bc = [t \in Tasks |-> NoBc]
       /\ delivered = {}
       /\ issued = {}
       /\ lastOp = NoOp
       /\ conversation_messages_db = <<>>
       /\ clock = 0
       /\ msg_seq = 0
       /\ updated_at = EmptyDict
       /\ inbox = [c \in ConnIds |-> <<>>]
       /\ lastReq = NoReq
       /\ active_connections = EmptyDict
       /\ user_organizations = EmptyDict
       /\ typing_users = EmptyDict

NoSessions == [tok \in Tokens |-> NoUser]

Init == Loaded({"u1", "u2"}, NoSessions, EmptyDict)

\* u1 and u2 have logged in, nobody has connected yet
InitLoggedIn ==
    Loaded({"u1", "u2"},
           [tok \in Tokens |-> IF tok = 1 THEN "u1" ELSE IF tok = 2 THEN "u2"
                                ELSE NoUser],
           EmptyDict)

\* u1, u2 and u3 of organization o1 have logged in; the conversation file
\* holds a direct conversation of u1 and u2
DirectId == <<"uuid", NoOrg, 1>>

InitFanout ==
    Loaded({"u1", "u2", "u3"},
           [tok \in Tokens |-> IF tok = 1 THEN "u1" ELSE IF tok = 2 THEN "u2"
                                ELSE IF tok = 3 THEN "u3" ELSE NoUser],
           [cid \in {DirectId} |->
               [type |-> "direct", participants |-> <<"u1", "u2">>,
                organization_id |-> "o1"]])

\* two organizations: u1 and u2 of o1 and u4 of o2 have logged in
InitTenants ==
    Loaded({"u1", "u2", "u4"},
           [tok \in Tokens |-> IF tok = 1 THEN "u1" ELSE IF tok = 2 THEN "u2"
                                ELSE IF tok = 3 THEN "u4" ELSE NoUser],
           EmptyDict)

\* -------------------------------------------------------- specifications
\* the connection handlers of at most MaxBurst transports, login, logout and
\* debug_clear
NextPresence ==
    \/ \E c \in BurstIds, tok \in Tokens : WsOpen(c, tok)
    \/ \E c \in ConnIds : WsRegister(c)
    \/ \E c \in ConnIds : ClientDrop(c)
    \/ \E c \in ConnIds : WsClose(c)
    \/ \E c \in BurstIds, tok \in Tokens : SseOpen(c, tok)
    \/ \E c \in ConnIds : SseClose(c)
    \/ \E t \in Tasks : BroadcastStep(t)
    \/ \E u \in UserIds, h \in HttpIds : Login(u, h)
    \/ \E tok \in Tokens, h \in HttpIds : Logout(tok, h)
    \/ DebugClear

SpecPresence == Init /\ [][NextPresence]_vars

\* u1 and u2 are interchangeable for the connection handlers (same
\* organization, one token each): the first transport is taken to be u1's
OpenedBy(c, tok) == c = 1 => sessions_db[tok] = "u1"

\* the connection handlers alone, with u1 and u2 logged in
NextConnections ==
    \/ \E c \in ConnIds, tok \in Tokens : OpenedBy(c, tok) /\ WsOpen(c, tok)
    \/ \E c \in ConnIds : WsRegister(c)
    \/ \E c \in ConnIds : ClientDrop(c)
    \/ \E c \in ConnIds : WsClose(c)
    \/ \E c \in ConnIds, tok \in Tokens : OpenedBy(c, tok) /\ SseOpen(c, tok)
    \/ \E c \in ConnIds : SseClose(c)
    \/ \E t \in Tasks : BroadcastStep(t)

SpecConnections == InitLoggedIn /\ [][NextConnections]_vars

\* the user_id arguments of the presence-counter calls
CounterUsers == {"u1", "u2", "u3"}

\* arbitrary call sequences of the two presence-counter functions
NextCounters ==
    \/ \E o \in OrgIds, u \in CounterUsers : CallIncrement(o, u)
    \/ \E o \in OrgIds, u \in CounterUsers : CallDecrement(o, u)

SpecCounters == Init /\ [][NextCounters]_vars

\* the conversation registry and the user directory with u1 and u2 logged in
\* and nobody connected; the requests name no conversation that exists
NextConversations ==
    \/ \E u \in UserIds, h \in HttpIds : VerifyOtp(u, h)
    \/ \E u \in UserIds, h \in HttpIds : VerifyOtpMember(u, h)
    \/ \E tok \in Tokens, target \in UserIds, role \in RequestRoles,
          active \in {"unset", "true", "false"} :
            UpdateUserRole(tok, target, role, active)
    \/ \E tok \in Tokens, rid \in UuidConvIds \cup {NoConv}, type \in {"team", "direct"},
          parts \in ParticipantLists :
            /\ rid \notin DOMAIN conversations_db
            /\ CreateConversation(tok, rid, type, parts)

SpecConversations == InitLoggedIn /\ [][NextConversations]_vars

\* at most MaxBurst WebSocket connections of three members of one organization, with typing
\* frames for the team conversation and for a direct conversation
NextFanout ==
    \/ \E c \in BurstIds, tok \in Tokens : WsOpen(c, tok)
    \/ \E c \in ConnIds : WsRegister(c)
    \/ \E c \in ConnIds : ClientDrop(c)
    \/ \E c \in ConnIds : WsClose(c)
    \/ \E c \in ConnIds, cid \in ConvIds : WsTyping(c, cid)
    \/ \E t \in Tasks : BroadcastStep(t)

SpecFanout == InitFanout /\ [][NextFanout]_vars

\* admission of WebSocket connections while a super_admin changes roles and
\* the is_active flag of the members
NextAdmission ==
    \/ \E c \in BurstIds, tok \in Tokens : WsOpen(c, tok)
    \/ \E c \in BurstIds, tok \in Tokens : WsReject(c, tok)
    \/ \E c \in ConnIds : WsRegister(c)
    \/ \E c \in ConnIds : ClientDrop(c)
    \/ \E c \in ConnIds : WsClose(c)
    \/ \E t \in Tasks : BroadcastStep(t)
    \/ \E tok \in Tokens, target \in UserIds, role \in RequestRoles,
          active \in {"unset", "true", "false"} :
            UpdateUserRole(tok, target, role, active)

SpecAdmission == InitLoggedIn /\ [][NextAdmission]_vars

\* the WebSocket handlers of three users of one organization, without frames
NextDelivery ==
    \/ \E c \in ConnIds, tok \in Tokens : WsOpen(c, tok)
    \/ \E c \in ConnIds : WsRegister(c)
    \/ \E c \in ConnIds : ClientDrop(c)
    \/ \E c \in ConnIds : WsClose(c)
    \/ \E t \in Tasks : BroadcastStep(t)

SpecDelivery == InitFanout /\ [][NextDelivery]_vars

\* the WebSocket handlers of two users with chat_message frames into the team
\* conversation: u1 opens the transports 1 and 3, u2 the transport 2, and the
\* frames come in on the transports 2 and 3, whose clients stay
Sender(c, tok) == sessions_db[tok] = IF c = 2 THEN "u2" ELSE "u1"

NextOrdering ==
    \/ \E c \in ConnIds, tok \in Tokens : Sender(c, tok) /\ WsOpen(c, tok)
    \/ \E c \in ConnIds : WsRegister(c)
    \/ ClientDrop(1)
    \/ \E c \in ConnIds : WsClose(c)
    \/ \E c \in ConnIds \ {1} : WsMessage(c, TeamConvId("o1"), <<"x">>, clock)
    \/ \E t \in Tasks : BroadcastStep(t)

SpecOrdering == InitLoggedIn /\ [][NextOrdering]_vars

\* the message store: messages sent over HTTP into the team conversation of
\* u1, u2, u3 and the direct conversation of u1 and u2, the history query and
\* delete_message
NextStore ==
    \/ \E tok \in {1, 2}, cid \in {TeamConvId("o1"), DirectId}, now \in 0..MaxClock :
          SendChatMessage(tok, MaxConn + 1, cid, <<"x">>, now)
    \/ \E cid \in {TeamConvId("o1"), DirectId} : GetMessages(3, cid)
    \/ \E tok \in {1, 2}, id \in 1..MaxMsgs : DeleteMessage(tok, MaxConn + 1, id)

SpecStore == InitFanout /\ [][NextStore]_vars

\* messages sent by u1 over a WebSocket and by u2 over HTTP: every form of
\* the conversation id, texts with and without surrounding whitespace
SentRequests ==
    {<<TeamConvId("o1"), <<"x">>>>, <<TeamConvId("o1"), <<Blank>>>>,
     <<DirectId, <<Blank, "x">>>>, <<DirectId, <<"x">>>>,
     <<LegacyTeamChat, <<"x", Blank>>>>, <<NoConv, <<"x">>>>,
     <<StaleTeamConvId("o1"), <<Blank, "x">>>>,
     <<<<"uuid", NoOrg, MaxUuid>>, <<"x">>>>}

NextRoundTrip ==
    \/ \E tok \in Tokens : OpenedBy(1, tok) /\ WsOpen(1, tok)
    \/ WsRegister(1)
    \/ \E r \in SentRequests : WsMessage(1, r[1], r[2], clock)
    \/ \E r \in SentRequests : SendChatMessage(2, MaxConn + 1, r[1], r[2], clock)
    \/ \E t \in Tasks : BroadcastStep(t)

SpecRoundTrip == InitFanout /\ [][NextRoundTrip]_vars

\* the handlers of websocket_endpoint for u1 and u2 with typing frames
NextManager ==
    \/ \E c \in BurstIds, u \in {"u1", "u2"} : (c = 1 => u = "u1") /\ MgrConnect(c, u)
    \/ \E c \in BurstIds : ClientDrop(c)
    \/ \E c \in BurstIds, cid \in {TeamConvId("o1"), DirectId} : MgrTyping(c, cid)
    \/ \E c \in BurstIds : MgrDisconnect(c)
    \/ \E c \in BurstIds, D \in SUBSET {"u1", "u2"}, raised \in BOOLEAN :
          MgrResume(c, D, raised)

SpecManager == InitFanout /\ [][NextManager]_vars

\* arbitrary call sequences of add_chat_connection and remove_chat_connection
NextRegistry ==
    \/ \E o \in OrgIds, c \in ConnIds, u \in {"u1", "u2"} : CallAdd(o, c, u)
    \/ \E c \in ConnIds : CallRemove(c)

SpecRegistry == Init /\ [][NextRegistry]_vars

\* the handlers of websocket_endpoint and calls of send_personal_message
NextPersonal ==
    \/ \E c \in BurstIds, u \in {"u1", "u2"} : (c = 1 => u = "u1") /\ MgrConnect(c, u)
    \/ \E c \in BurstIds : ClientDrop(c)
    \/ \E c \in BurstIds : MgrDisconnect(c)
    \/ \E c \in BurstIds, D \in SUBSET {"u1", "u2"} : MgrResume(c, D, FALSE)
    \/ \E u \in {"u1", "u2", "u3"}, ok \in BOOLEAN : MgrSend(u, ok)

SpecPersonal == InitFanout /\ [][NextPersonal]_vars

\* the health endpoints beside logouts, the creation of a conversation, a
\* WebSocket connection (transport 1) and an event stream (transport 2)
NextHealth ==
    \/ \E path \in HealthPaths : HealthCheck(path)
    \/ \E tok \in {1, 2} : Logout(tok, MaxConn + 1)
    \/ CreateConversation(1, NoConv, "direct", <<"u2">>)
    \/ \E tok \in {1, 2} : WsOpen(1, tok)
    \/ WsRegister(1)
    \/ \E c \in {1, 2} : ClientDrop(c)
    \/ WsClose(1)
    \/ \E tok \in {1, 2} : SseOpen(2, tok)
    \/ SseClose(2)
    \/ \E t \in Tasks : BroadcastStep(t)

SpecHealth == InitLoggedIn /\ [][NextHealth]_vars

\* the WebSocket handlers of u1 (transport 1) and u2 (transport 2) of o1 and
\* of u4 (transport 3) of o2; the typing frames of u1 and u4 name the team
\* conversation of either organization, the chat_message frames of u4 also a
\* conversation that does not exist, with a text or with whitespace only
Tenant(c, tok) == tok = c

NextTenants ==
    \/ \E c \in ConnIds, tok \in Tokens : Tenant(c, tok) /\ WsOpen(c, tok)
    \/ \E c \in ConnIds : WsRegister(c)
    \/ ClientDrop(2)
    \/ \E c \in ConnIds : WsClose(c)
    \/ \E c \in {1, 3}, o \in OrgIds : WsTyping(c, TeamConvId(o))
    \/ \E cid \in {TeamConvId("o1"), TeamConvId("o2"), DirectId},
          text \in {<<"x">>, <<Blank>>} : WsMessage(3, cid, text, clock)
    \/ \E t \in Tasks : BroadcastStep(t)

SpecTenants == InitTenants /\ [][NextTenants]_vars

\* the WebSocket handlers of u1 and u2 with frames of every shape beside
\* typing frames for the team conversation
NextFrames ==
    \/ \E c \in BurstIds, tok \in Tokens : OpenedBy(c, tok) /\ WsOpen(c, tok)
    \/ \E c \in BurstIds : WsRegister(c)
    \/ \E c \in BurstIds : ClientDrop(c)
    \/ \E c \in BurstIds : WsClose(c)
    \/ \E c \in BurstIds, shape \in FrameShapes : WsFrame(c, shape)
    \/ \E c \in BurstIds : WsTyping(c, TeamConvId("o1"))
    \/ \E t \in Tasks : BroadcastStep(t)

SpecFrames == InitLoggedIn /\ [][NextFrames]_vars

\* reading: u1, u2 and u3 ask for the direct conversation of u1 and u2, by
\* create_conversation with its id and by the history query, while u1 and u2
\* send messages into it and create further conversations
NextAccess ==
    \/ \E tok \in {1, 2, 3}, rid \in {DirectId, NoConv}, parts \in {<<"u2">>, <<"u3">>} :
          CreateConversation(tok, rid, "direct", parts)
    \/ \E tok \in {1, 2, 3}, cid \in {DirectId, TeamConvId("o1")} : GetMessages(tok, cid)
    \/ \E tok \in {1, 2} : SendChatMessage(tok, MaxConn + 1, DirectId, <<"x">>, clock)

SpecAccess == InitFanout /\ [][NextAccess]_vars

\* ==================================================================== claims
Online(o, u) == [org |-> o, ev |-> PresenceEvent(u, TRUE)]
Offline(o, u) == [org |-> o, ev |-> PresenceEvent(u, FALSE)]
Registered(c) == pc[c] \in {"online", "active", "frame", "crashed"}
CleanedUp(c) == pc[c] \in {"offline", "closed"}
OfUser(c, o, u) == user_data[c] = [id |-> u, organization_id |-> o]

\* C1: in every step a presence-online event is broadcast for (o, u) exactly
\* when the connection count of (o, u) goes from 0 to a positive value, and
\* a presence-offline event exactly when it returns to 0.
C1_EventsMatchCountEdges ==
    [][\A o \in OrgIds, u \in UserIds :
          /\ (Online(o, u) \in issued') <=>
                 (Count(presence_counters, o, u) = 0
                  /\ Count(presence_counters', o, u) > 0)
          /\ (Offline(o, u) \in issued') <=>
                 (Count(presence_counters, o, u) > 0
                  /\ Count(presence_counters', o, u) = 0)]_vars

\* C2: the cleanup of a connection of a user who holds two connections
\* broadcasts no presence-offline event; the cleanup of the user's last
\* connection, registered while another one was open, broadcasts one.
C2_OfflineOnLastCloseOnly ==
    [][\A c \in ConnIds :
          (Registered(c) /\ CleanedUp(c)')
          => LET o == user_data[c].organization_id
                 u == user_data[c].id
             IN /\ Count(presence_counters, o, u) = 2 => Offline(o, u) \notin issued'
                /\ (Count(presence_counters, o, u) = 1 /\ ~first_online[c])
                       => Offline(o, u) \in issued']_vars

\* C3: an event of a conversation is handed only to connections of the
\* participants of that conversation.
C3_OnlyParticipantsReceive ==
    \A d \in delivered :
        d[2].conv \in DOMAIN conversations_db
        => user_data[d[1]].id \in Range(conversations_db[d[2].conv].participants)

\* C4: an organization stores at most one direct conversation per unordered
\* pair of users.
C4_OneDirectPerPair ==
    \A c1, c2 \in DOMAIN conversations_db :
        ( /\ c1 # c2
          /\ conversations_db[c1].type = "direct"
          /\ conversations_db[c2].type = "direct"
          /\ conversations_db[c1].organization_id = conversations_db[c2].organization_id )
        => Range(conversations_db[c1].participants)
               # Range(conversations_db[c2].participants)

\* C5: a direct conversation is stored with exactly two participants, two
\* distinct users that are active members of its organization at that time.
C5_DirectHasTwoDistinctActive ==
    [][\A cid \in ConvIds :
          ( /\ cid \notin DOMAIN conversations_db
            /\ cid \in DOMAIN conversations_db'
            /\ conversations_db'[cid].type = "direct" )
          => LET ps == conversations_db'[cid].participants
             IN /\ Len(ps) = 2
                /\ ps[1] # ps[2]
                /\ \A p \in Range(ps) :
                       /\ p \in DOMAIN users_db
                       /\ users_db[p].organization_id
                              = conversations_db'[cid].organization_id
                       /\ users_db[p].is_active]_vars

\* C6: at most one conversation of type team is stored per organization.
C6_OneTeamPerOrganization ==
    \A o \in OrgIds :
        Cardinality({cid \in DOMAIN conversations_db :
                        /\ conversations_db[cid].type = "team"
                        /\ conversations_db[cid].organization_id = o}) <= 1

\* C7: the participants of an organization's team conversation are exactly
\* the active members of the organization.
C7_TeamEqualsActiveMembers ==
    \A o \in organizations_db :
        TeamConvId(o) \in DOMAIN conversations_db
        => Range(conversations_db[TeamConvId(o)].participants)
               = {u \in DOMAIN users_db : /\ users_db[u].organization_id = o
                                          /\ users_db[u].is_active}

\* C8: _increment_presence adds 1 to the count of (o, u), changes no other
\* count and returns true iff the count was 0; _decrement_presence of a
\* positive count subtracts 1, changes no other count and returns true iff
\* the new count is 0; of an absent entry it changes nothing and returns false.
C8_PresenceContract ==
    [][LET o == lastOp'.org
           u == lastOp'.user
           before == Count(presence_counters, o, u)
           after == Count(presence_counters', o, u)
           OthersKept == \A o2 \in OrgIds, u2 \in UserIds :
                             <<o2, u2>> # <<o, u>>
                             => Count(presence_counters', o2, u2)
                                    = Count(presence_counters, o2, u2)
       IN /\ lastOp'.op = "increment"
               => after = before + 1 /\ OthersKept /\ (lastOp'.ret <=> before = 0)
          /\ (lastOp'.op = "decrement" /\ before > 0)
               => after = before - 1 /\ OthersKept /\ (lastOp'.ret <=> after = 0)
          /\ (lastOp'.op = "decrement" /\ before = 0)
               => presence_counters' = presence_counters /\ ~lastOp'.ret]_vars

\* a decrement of a count of 1 has reported that the user went offline while
\* another user of the organization is still counted
C8_Witness ==
    /\ lastOp.op = "decrement"
    /\ lastOp.ret
    /\ Count(presence_counters, lastOp.org, lastOp.user) = 0
    /\ lastOp.org \in DOMAIN presence_counters

\* C9: every stored presence count is a positive integer and no empty
\* per-organization table is kept.
C9_CountsPositive ==
    \A o \in DOMAIN presence_counters :
        /\ DOMAIN presence_counters[o] # {}
        /\ \A u \in DOMAIN presence_counters[o] : presence_counters[o][u] >= 1

\* the last entry of an organization was decremented to 0: its table is gone
\* while the other organization's table, with a count above 1, is kept
C9_Witness ==
    /\ lastOp.op = "decrement"
    /\ lastOp.ret
    /\ lastOp.org \notin DOMAIN presence_counters
    /\ \E o \in DOMAIN presence_counters :
           \E u \in DOMAIN presence_counters[o] : presence_counters[o][u] > 1

\* C10: the count of (o, u) is the number of its registered connections, and
\* the registrations and cleanups of a burst of overlapping connections
\* observe exactly one first-connection and exactly one went-offline: of the
\* connections of (o, u) one more has seen first_online than went_offline
\* while one is registered, and equally many when none is.
C10_OneEdgePerBurst ==
    \A o \in OrgIds, u \in UserIds :
        LET mine == {c \in ConnIds : OfUser(c, o, u) /\ pc[c] \notin {"idle", "accepting"}}
            reg == {c \in mine : Registered(c)}
            firsts == {c \in mine : first_online[c]}
            lasts == {c \in mine \ reg : went_offline[c]}
        IN /\ Count(presence_counters, o, u) = Cardinality(reg)
           /\ Cardinality(firsts) = Cardinality(lasts) + (IF reg = {} THEN 0 ELSE 1)

\* two connections of one user were awaiting accept together; both have been
\* registered and cleaned up, one saw first_online and one saw went_offline
C10_Witness ==
    \E c, d \in ConnIds :
        /\ c # d
        /\ user_data[c] = user_data[d]
        /\ pc[c] = "closed" /\ pc[d] = "closed"
        /\ first_online[c] /\ ~first_online[d]
        /\ went_offline[c] # went_offline[d]
        /\ Count(presence_counters, user_data[c].organization_id, user_data[c].id) = 0

\* C11: a connection attempt is admitted only with a token of a known and
\* active user; every other attempt is rejected, and a rejected attempt stays
\* rejected, is not registered, counts no presence and broadcasts nothing.
C11_RejectsInvalidOrInactive ==
    [][\A c \in ConnIds :
          /\ (pc[c] = "idle" /\ pc'[c] # "idle")
                => \/ /\ pc'[c] = "rejected"
                      /\ hubVars' = hubVars
                      /\ issued' = {}
                   \/ /\ user_data'[c].id \in DOMAIN users_db
                      /\ users_db[user_data'[c].id].is_active
          /\ pc[c] = "rejected" => pc'[c] = "rejected"]_vars

\* the handler of a registered transport has returned or raised
Terminated(c) == pc[c] \in {"closed", "crashed"}
InHub(c) ==
    \/ \E o \in DOMAIN active_chat_connections :
           kind[c] = "ws" /\ c \in Range(active_chat_connections[o])
    \/ \E o \in DOMAIN sse_connections :
           kind[c] = "sse" /\ c \in Range(sse_connections[o])

\* C12: the handler of a registered connection never ends without its cleanup:
\* when it has ended, the cleanup has run, the connection is in no registry
\* and the presence count of every user is the number of that user's
\* connections whose handlers are still running.
C12_CleanupAlwaysRuns ==
    /\ \A c \in ConnIds : Terminated(c) => (pc[c] = "closed" /\ ~InHub(c))
    /\ \A o \in OrgIds, u \in UserIds :
           Count(presence_counters, o, u)
               = Cardinality({c \in ConnIds : /\ OfUser(c, o, u)
                                              /\ pc[c] \in {"online", "active", "frame"}})

\* C13: a broadcast never raises or stops early: in the step in which the
\* broadcast of a task ends, every SSE queue of the organization is handed
\* the event, and the calling handler is not terminated by it.
C13_BroadcastNeverRaises ==
    [][\A t \in Tasks :
          (bc[t].active /\ ~bc'[t].active)
          => /\ bc[t].org \in DOMAIN sse_connections
                 => \A i \in DOMAIN sse_connections[bc[t].org] :
                        <<sse_connections[bc[t].org][i], bc[t].ev>> \in delivered'
             /\ t \in ConnIds => pc'[t] # "crashed"]_vars

\* C14: when a broadcast ends, every connection that was in the
\* organization's list when it began, is not the excluded one and is still
\* open and registered has been sent the event.
C14_AllRegisteredReceive ==
    [][\A t \in Tasks :
          (bc[t].active /\ ~bc'[t].active)
          => \A c \in bc[t].start :
                 (c # bc[t].excl /\ is_open'[c] /\ Registered(c)')
                 => \/ c \in bc[t].got
                    \/ <<c, bc[t].ev>> \in delivered']_vars

\* the broadcast of task t has returned from an awaited send_text in this step
Resumed(t) == bc[t].active /\ (~bc'[t].active \/ bc'[t].pos # bc[t].pos)

Increasing(s) == \A i, j \in DOMAIN s : i < j => s[i] < s[j]
HistoryIds(cid) ==
    LET h == get_conversation_messages(conversation_messages_db, cid)
    IN [i \in DOMAIN h |-> h[i].id]

\* C16: message ids count the messages in the order the server accepted them.
\* Every client that is still connected has received the chat_message events
\* in that order, and the history query of every conversation returns the
\* messages in that order.
C16_AcceptanceOrder ==
    /\ \A c \in ConnIds : is_open[c] => Increasing(inbox[c])
    /\ \A cid \in ConvIds : Increasing(HistoryIds(cid))

StoredIds(db) == {db[i].id : i \in DOMAIN db}
HistoryOf(db, cid) == get_conversation_messages(db, cid)
WithoutId(h, id) ==
    LET Other(r) == r.id # id
    IN SelectSeq(h, Other)
Deleted ==
    /\ lastReq'.op = "delete"
    /\ lastReq'.status = "ok"
    /\ lastReq'.id \in StoredIds(conversation_messages_db)
ConversationsOf(db) == {db[i].conversation_id : i \in DOMAIN db}

\* C17: when delete_message deletes a message, the history of every
\* conversation is afterwards the history before without that message - the
\* other responses are the same and in the same order, and the history of the
\* message's conversation is shorter by exactly one; a deleted message never
\* comes back.
C17_DeleteRemovesOnlyThat ==
    [][/\ Deleted =>
             /\ \A cid \in ConversationsOf(conversation_messages_db) :
                   HistoryOf(conversation_messages_db', cid)
                       = WithoutId(HistoryOf(conversation_messages_db, cid), lastReq'.id)
             /\ Len(HistoryOf(conversation_messages_db', lastReq'.conv))
                   = Len(HistoryOf(conversation_messages_db, lastReq'.conv)) - 1
       /\ StoredIds(conversation_messages_db') \cap (1..msg_seq)
              \subseteq StoredIds(conversation_messages_db)]_vars

\* the first of three messages of a conversation has just been deleted
C17_Witness ==
    /\ lastReq.op = "delete"
    /\ lastReq.status = "ok"
    /\ lastReq.id \notin StoredIds(conversation_messages_db)
    /\ Len(HistoryOf(conversation_messages_db, lastReq.conv)) >= 2
    /\ \A i \in DOMAIN conversation_messages_db :
          conversation_messages_db[i].id > lastReq.id

\* the responses of the history queries that carry message id
Fetched(db, id) ==
    {r \in UNION {Range(HistoryOf(db, cid)) : cid \in ConversationsOf(db)} : r.id = id}
Blanks(n) == [i \in 1..n |-> Blank]
\* s is t without its leading and trailing whitespace
IsTrimOf(s, t) ==
    /\ s # <<>> => (s[1] # Blank /\ s[Len(s)] # Blank)
    /\ \E i, j \in 0..Len(t) : t = Blanks(i) \o s \o Blanks(j)
Accepted ==
    /\ lastReq'.status = "accepted"
    /\ lastReq'.id = msg_seq + 1

InLoop(c) == kind[c] = "mgr" /\ pc[c] \in {"loop", "typing"}
Typing(u) == {cid \in DOMAIN typing_users : u \in typing_users[cid]}

\* C19: when a handler of websocket_endpoint leaves its receive loop, its user
\* is afterwards in no conversation's set of typing users; and whoever is in
\* such a set has a handler that is still in its receive loop.
C19_TypingClearedOnDisconnect ==
    [][/\ \A c \in ConnIds :
             (InLoop(c) /\ ~InLoop(c)') =>
                 \A cid \in DOMAIN typing_users' :
                    user_data[c].id \notin typing_users'[cid]
       /\ \A cid \in DOMAIN typing_users' : \A u \in typing_users'[cid] :
             \E c \in ConnIds : InLoop(c)' /\ user_data'[c].id = u]_vars

\* a user typed in a conversation and has disconnected since; nobody else
\* has connected
C19_Witness ==
    \E c \in ConnIds :
       /\ kind[c] = "mgr"
       /\ pc[c] = "closed"
       /\ \A x \in ConnIds \ {c} : pc[x] = "idle"
       /\ DOMAIN typing_users # {}
       /\ Typing(user_data[c].id) = {}

\* C20: a call of remove_chat_connection for a connection that an earlier
\* call has removed changes neither the connection tables nor any presence
\* count and returns False.
C20_SecondUnregisterNoOp ==
    [][\A c \in ConnIds :
          (lastOp'.op = "remove" /\ lastOp'.conn = c /\ pc[c] = "closed")
              => (hubVars' = hubVars /\ ~lastOp'.ret)]_vars

\* C21: every handler of websocket_endpoint that is in its receive loop with
\* its client still there is registered: the manager holds its socket under
\* its user - also when the user has another connection - and the user is
\* online (get_online_users).
C21_SeveralConnectionsPerUser ==
    \A c \in ConnIds :
       (InLoop(c) /\ is_open[c] /\ Unreachable = {}) =>
           /\ user_data[c].id \in DOMAIN active_connections
           /\ active_connections[user_data[c].id] = c
           /\ user_data[c].id \in DOMAIN user_organizations

\* C22: a call of send_personal_message for a user tries every connection of
\* that user whose handler has connected and not left, with its client still
\* there, returns true exactly when a send succeeded (false when the user has
\* no connection), leaves a failed connection unregistered, and leaves the
\* registrations of the other users as they were.
C22_SendTriesEveryConnection ==
    [][(lastOp' # lastOp /\ lastOp'.op = "send") =>
          LET u == lastOp'.user
              live == {c \in ConnIds : /\ kind[c] = "mgr" /\ is_open[c]
                                        /\ pc[c] \in {"connecting", "loop", "typing"}
                                        /\ user_data[c].id = u}
          IN /\ live \subseteq {lastOp'.conn}
             /\ live = {} => ~lastOp'.ret
             /\ ~lastOp'.ret => u \notin DOMAIN active_connections'
             /\ \A v \in DOMAIN active_connections \ {u} :
                   /\ v \in DOMAIN active_connections'
                   /\ active_connections'[v] = active_connections[v]]_vars

\* C23: GET /healthz, /health and /test can be answered in every state, the
\* answer is 200 with ok = true whatever the tables hold, and the request
\* changes none of the user, session, conversation, message, connection and
\* presence tables.
C23_HealthAlwaysOk ==
    [][/\ \A path \in HealthPaths : ENABLED HealthCheck(path)
       /\ (lastReq' # lastReq /\ lastReq'.op \in HealthPaths) =>
             /\ lastReq'.status = "200"
             /\ lastReq'.response[1].ok
             /\ UNCHANGED <<dbVars, convVars, hubVars, conversation_messages_db,
                            user_data, kind, pc, mgrVars>>]_vars

\* a health request was answered while a connection was registered and
\* counted, a conversation existed and a user had logged out
C23_Witness ==
    /\ lastReq.op \in HealthPaths
    /\ \E o \in DOMAIN presence_counters : DOMAIN presence_counters[o] # {}
    /\ \E o \in DOMAIN active_chat_connections : active_chat_connections[o] # <<>>
    /\ \E cid \in DOMAIN conversations_db : cid \in UuidConvIds
    /\ \E tok \in {1, 2} : sessions_db[tok] = NoUser

\* C24: an event handed to a connection was caused by a user of the
\* organization of the connection's user; no event crosses to another
\* organization, whichever conversation the frame named.
C24_NoCrossOrganizationDelivery ==
    \A d \in delivered :
       d[2].user \in DOMAIN users_db =>
           users_db[d[2].user].organization_id = user_data[d[1]].organization_id

\* C25: a chat_message frame with an empty or whitespace-only content, or
\* naming a conversation that does not exist and is not a team-chat id of the
\* sender's organization, or sent by a user who is not a participant, stores
\* no message, leaves every updated_at and fans out no event; every other
\* chat_message frame appends exactly one message of the sender to the
\* conversation, sets the conversation's updated_at to the message's
\* created_at and starts one fan-out of one chat_message event for it.
C25_FrameEffect ==
    [][(lastReq' # lastReq /\ lastReq'.op = "ws_send") =>
          LET u == lastReq'.user
              o == users_db[u].organization_id
              text == lastReq'.content
              cid == lastReq'.conv
              blank == \A i \in DOMAIN text : text[i] = Blank
              shorthand == \/ cid \in {NoConv, LegacyTeamChat}
                           \/ (cid[1] = "team" /\ cid[2] = o)
              target == IF cid \in DOMAIN conversations_db /\ cid # NoConv THEN cid
                        ELSE TeamConvId(o)
              missing == cid \notin DOMAIN conversations_db /\ ~shorthand
              outsider == /\ target \in DOMAIN conversations_db
                          /\ u \notin Range(conversations_db[target].participants)
              n == Len(conversation_messages_db)
              stored == conversation_messages_db'[n + 1]
          IN IF blank \/ missing \/ outsider
             THEN /\ conversation_messages_db' = conversation_messages_db
                  /\ updated_at' = updated_at
                  /\ issued' = {}
                  /\ delivered' = {}
             ELSE /\ Len(conversation_messages_db') = n + 1
                  /\ SubSeq(conversation_messages_db', 1, n) = conversation_messages_db
                  /\ stored.author_id = u
                  /\ stored.conversation_id = target
                  /\ stored.content = strip(text)
                  /\ target \in DOMAIN updated_at'
                  /\ updated_at'[target] = stored.created_at
                  /\ \A x \in DOMAIN updated_at \ {target} :
                        x \in DOMAIN updated_at' /\ updated_at'[x] = updated_at[x]
                  /\ Cardinality(issued') = 1
                  /\ \A b \in issued' : b.ev = ChatMessageEvent(stored)]_vars

\* frames of each kind were handled: the last one was refused (an outsider's,
\* a blank one or one for a missing conversation) after one was stored
C25_Witness ==
    /\ lastReq.op = "ws_send"
    /\ lastReq.status \in {"denied", "empty", "not_found"}
    /\ conversation_messages_db # <<>>
    /\ TeamConvId("o2") \in DOMAIN updated_at

\* C26: a frame that is no JSON, no JSON object, has a field of the wrong
\* type or has a type the handler does not know is dropped: no handler
\* leaves its loop, no connection is closed or unregistered and no presence
\* count changes.
C26_BadFrameDropped ==
    [][(lastReq' # lastReq /\ lastReq'.op = "frame") =>
          /\ pc' = pc
          /\ is_open' = is_open
          /\ active_chat_connections' = active_chat_connections
          /\ presence_counters' = presence_counters]_vars

\* C27: a typing event is handed to no connection of the user who sent the
\* typing frame, whether the sending socket, another device of the user or
\* an event stream of the user.
C27_TypingSkipsSender ==
    \A d \in delivered :
       d[2].type = "chat_typing" => user_data[d[1]].id # d[2].user

\* C28: the presence-online event that a handler broadcasts after it
\* registered the first connection of its user is not handed to that very
\* connection, be it a WebSocket or an event stream.
C28_OnlineSkipsNewConnection ==
    \A d \in delivered :
       d[2].type = "online" =>
           ~(first_online[d[1]] /\ user_data[d[1]].id = d[2].user)

\* C29: when no broadcast is suspended, no handler is between accept and its
\* loop or in its cleanup, and no client of a handler in its loop has gone,
\* the presence counts of every organization add up to the number of its
\* registered WebSocket connections and event-stream queues.
C29_CountsMatchRegistry ==
    LET RECURSIVE Sum(_, _)
        Sum(f, S) == IF S = {} THEN 0
                     ELSE LET x == CHOOSE y \in S : TRUE
                          IN f[x] + Sum(f, S \ {x})
        Counted(o) == IF o \in DOMAIN presence_counters
                      THEN Sum(presence_counters[o], DOMAIN presence_counters[o])
                      ELSE 0
        Listed(o) == (IF o \in DOMAIN active_chat_connections
                      THEN Len(active_chat_connections[o]) ELSE 0)
                     + (IF o \in DOMAIN sse_connections
                        THEN Len(sse_connections[o]) ELSE 0)
        Quiet == /\ \A t \in Tasks : ~bc[t].active
                 /\ \A c \in ConnIds : pc[c] \in {"idle", "active", "closed", "crashed"}
                 /\ \A c \in ConnIds : pc[c] = "active" => is_open[c]
    IN Quiet => \A o \in OrgIds : Counted(o) = Listed(o)

\* C30: the conversation that create_conversation returns has the caller
\* among its participants, and a message history is returned only to a
\* participant of the conversation it belongs to.
C30_OnlyParticipantsRead ==
    /\ lastReq.op = "create" =>
          \A i \in DOMAIN lastReq.response :
             lastReq.user \in Range(lastReq.response[i].participants)
    /\ (lastReq.op = "history" /\ lastReq.status = "ok") =>
          /\ lastReq.conv \in DOMAIN conversations_db
          /\ lastReq.user \in Range(conversations_db[lastReq.conv].participants)

====
